---- MODULE Spec2Model ----
(***************************************************************************)
(* State-machine model of the CollabBoard room engine: Room, RoomService   *)
(* (the room registry with its empty-room grace period), BoardService,     *)
(* MessageHandler and the WsSession glue.  Handlers run on a pool of       *)
(* io_context threads (main.cpp), one strand per session, so a handler is  *)
(* modelled as the sequence of its critical sections: every step below is  *)
(* one lock-protected call (or one atomic operation) of the source, and    *)
(* steps of different sessions interleave freely.                          *)
(***************************************************************************)
EXTENDS Integers, Sequences, FiniteSets, TLC

(***************************************************************************)
(* Bounds of the model.  The capacities are the program's constants scaled *)
(* down (MaxUsersPerRoom = 15, MaxStrokesPerRoom = 1000,                   *)
(* SnapshotStrokeLimit = 500, MaxPointsPerStroke = 10000,                  *)
(* emptyRoomGracePeriod = 60 s in the source).                             *)
(* MaxJoins and MaxEdits bound the join_room frames and the board frames a *)
(* connection sends, MaxRooms the Room objects ever constructed, MaxTime   *)
(* the clock.                                                              *)
(***************************************************************************)
MaxUsersPerRoom == 3
MaxStrokesPerRoom == 2
EmptyRoomGrace == 1
MaxTime == 2
MaxJoins == 1
MaxEdits == 1
MaxRooms == 2
SnapshotStrokeLimit == 1
MaxPointsPerStroke == 2

Sessions == {"s1", "s2", "s3", "s4"}
RoomIds == {"R"}
Passwords == {"", "pw"}
StrokeIds == {"k1", "k2"}
XCoords == {1, 2}
YCoords == {1}

\* std::unordered_map as a function with a varying domain
EmptyMap == [x \in {} |-> 0]
Put(f, k, v) == [x \in DOMAIN f \cup {k} |-> IF x = k THEN v ELSE f[x]]
Erase(f, k) == [x \in DOMAIN f \ {k} |-> f[x]]

(***************************************************************************)
(* Room (models/room.hpp).  A Room is a record; its methods are operators  *)
(* from the record to the result or to the record after the call.          *)
(***************************************************************************)
Room(id, password) ==
    [roomId |-> id, password |-> password, participants |-> EmptyMap,
     cursors |-> EmptyMap, strokes |-> <<>>, nextSeq |-> 1]

\* lastActivity: the time of construction, later of the last touch()
UserInfo(oderId, color, session, t) ==
    [userId |-> oderId, color |-> color, session |-> session, lastActivity |-> t]

CursorState(oderId, x, y) == [oderId |-> oderId, x |-> x, y |-> y]
\* validatePassword accepting any password (the fault C11 excludes)
validatePassword_any(room, pwd) == TRUE

validatePassword(room, pwd) ==
    IF room.password = "" THEN TRUE ELSE room.password = pwd

isFull(room) == Cardinality(DOMAIN room.participants) >= MaxUsersPerRoom

isEmpty(room) == DOMAIN room.participants = {}

\* a Room whose addParticipant does not test the capacity (the fault C5 excludes)
addParticipantOk_unchecked(room) == TRUE

\* Room::addParticipant: the returned bool, and the room after the call
addParticipantOk(room) == ~(Cardinality(DOMAIN room.participants) >= MaxUsersPerRoom)

addParticipant(room, oderId, info) ==
    IF ~addParticipantOk(room) THEN room
    ELSE [room EXCEPT !.participants = Put(@, oderId, info),
                      !.cursors = Put(@, oderId, CursorState(oderId, 0, 0))]

\* a Room whose removeParticipant forgets the cursor entry (the fault C4 excludes)
removeParticipant_keepsCursor(room, oderId) ==
    [room EXCEPT !.participants = Erase(@, oderId)]

removeParticipant(room, oderId) ==
    [room EXCEPT !.participants = Erase(@, oderId),
                 !.cursors = Erase(@, oderId)]

getParticipants(room) == DOMAIN room.participants

\* Room::getParticipant: whether the returned pointer is non-null
getParticipant(room, oderId) == oderId \in DOMAIN room.participants

\* Room::updateCursor at time t: the cursor is moved when there is one, and
\* the participant is touched when there is one
updateCursor(room, oderId, x, y, t) ==
    [room EXCEPT
        !.cursors = IF oderId \in DOMAIN @ THEN Put(@, oderId, CursorState(oderId, x, y))
                    ELSE @,
        !.participants = IF oderId \in DOMAIN @
                         THEN Put(@, oderId, [@[oderId] EXCEPT !.lastActivity = t])
                         ELSE @]

Stroke(id, oderId) ==
    [strokeId |-> id, oderId |-> oderId, points |-> <<>>, complete |-> FALSE, seq |-> 0]

\* a snapshot of the oldest strokes instead of the newest (the fault C28
\* excludes)
getStrokesSnapshot_oldest(room, limit) ==
    IF Len(room.strokes) <= limit THEN room.strokes
    ELSE SubSeq(room.strokes, 1, limit)

getStrokesSnapshot(room, limit) ==
    IF Len(room.strokes) <= limit THEN room.strokes
    ELSE SubSeq(room.strokes, Len(room.strokes) - limit + 1, Len(room.strokes))

\* a Room that evicts the newest strokes instead of the oldest (the fault C6 excludes)
pruneStrokesIfNeeded_newest(strokes) ==
    IF Len(strokes) > MaxStrokesPerRoom
    THEN SubSeq(strokes, 1, MaxStrokesPerRoom)
    ELSE strokes

pruneStrokesIfNeeded(strokes) ==
    IF Len(strokes) > MaxStrokesPerRoom
    THEN SubSeq(strokes, Len(strokes) - MaxStrokesPerRoom + 1, Len(strokes))
    ELSE strokes

addStroke(room, stroke) ==
    [room EXCEPT !.strokes = pruneStrokesIfNeeded(Append(@, stroke))]
\* Room::getStroke: the address of the first stroke with this id, as its
\* slot in strokes_ (0 = nullptr)
getStroke(room, strokeId) ==
    IF \E k \in DOMAIN room.strokes : room.strokes[k].strokeId = strokeId
    THEN CHOOSE k \in DOMAIN room.strokes :
            /\ room.strokes[k].strokeId = strokeId
            /\ \A j \in 1..(k - 1) : room.strokes[j].strokeId # strokeId
    ELSE 0

\* the seq of the last element of strokes_: it changes with every push_back
vecTag(room) ==
    IF room.strokes = <<>> THEN 0 ELSE room.strokes[Len(room.strokes)].seq

\* What a Stroke* returned by getStroke denotes when it is used, outside the
\* Room's lock.  While strokes_ has not been touched it is the stroke found.
\* After an addStroke by another thread the slot holds whatever stroke
\* push_back and erase left there (the strokes behind an evicted one move
\* one slot down), or, when push_back reallocated, the pointer dangles: slot
\* 0 stands for freed memory, whose content is arbitrary.
Deref(room, ptr, vec) ==
    {ptr} \cup (IF vecTag(room) # vec THEN {0} ELSE {})

pointCount(stroke) == Len(stroke.points)

addPoints(stroke, newPoints) == [stroke EXCEPT !.points = @ \o newPoints]

finish(stroke) == [stroke EXCEPT !.complete = TRUE]

translate(stroke, dx, dy) ==
    [stroke EXCEPT !.points = [i \in DOMAIN @ |-> [x |-> @[i].x + dx, y |-> @[i].y + dy]]]

\* the sessions Room::broadcast calls sendFunc for: every participant but
\* excludeUserId whose weak session pointer can still be locked
broadcastTo(room, excludeUserId, live) ==
    {room.participants[u].session :
        u \in {v \in DOMAIN room.participants :
                 v # excludeUserId /\ room.participants[v].session \in live}}

(***************************************************************************)
(* RoomService registry (services/room_service.hpp).                       *)
(***************************************************************************)
cleanupExpiredRoomsLocked(rs, pd, t) ==
    LET expired == {r \in DOMAIN pd : pd[r] <= t}
    IN  [rooms |-> [r \in DOMAIN rs \ expired |-> rs[r]],
         pending |-> [r \in DOMAIN pd \ expired |-> pd[r]]]

\* RoomService::getOrCreateRoom under roomsMutex_; a Room object is an index
\* into heap (the shared_ptr's target)
getOrCreateRoom(rs, pd, hp, t, roomId, password) ==
    LET c == cleanupExpiredRoomsLocked(rs, pd, t)
        pd2 == Erase(c.pending, roomId)
    IN  IF roomId \in DOMAIN c.rooms
        THEN [rooms |-> c.rooms, pending |-> pd2, heap |-> hp,
              room |-> c.rooms[roomId]]
        ELSE [rooms |-> Put(c.rooms, roomId, Len(hp) + 1), pending |-> pd2,
              heap |-> Append(hp, Room(roomId, password)),
              room |-> Len(hp) + 1]

\* RoomService::getRoom; room 0 is nullptr
getRoom(rs, pd, t, roomId) ==
    LET c == cleanupExpiredRoomsLocked(rs, pd, t)
    IN  [rooms |-> c.rooms, pending |-> c.pending,
         room |-> IF roomId \in DOMAIN c.rooms THEN c.rooms[roomId] ELSE 0]

roomExists(rs, roomId) == roomId \in DOMAIN rs

deleteRoom(rs, roomId) == Erase(rs, roomId)

getRoomCount(rs) == Cardinality(DOMAIN rs)

\* a leaveRoom that grants no grace period (the fault C8's amended form excludes)
leaveDeadline_now(t) == t

\* the deadline RoomService::leaveRoom stores for an empty room
leaveDeadline(t) == t + EmptyRoomGrace

(***************************************************************************)
(* RateLimiter (utils/rate_limiter.hpp) as PresenceService configures it.  *)
(* The clock counts seconds, so the token counts stay whole numbers.       *)
(***************************************************************************)
CursorUpdatesPerSecond == 20
RateLimitBurstSize == 5

TokenBucket(initialTokens, t) == [tokens |-> initialTokens, lastRefill |-> t]

Min(a, b) == IF a <= b THEN a ELSE b

getOrCreateBucket(bs, userId, t) ==
    IF userId \in DOMAIN bs THEN bs ELSE Put(bs, userId, TokenBucket(RateLimitBurstSize, t))

refillBucket(bucket, t) ==
    [tokens |-> Min(bucket.tokens + (t - bucket.lastRefill) * CursorUpdatesPerSecond,
                    RateLimitBurstSize),
     lastRefill |-> t]

\* RateLimiter::tryConsume(userId): the returned bool and the buckets after it
tryConsumeOk(bs, userId, t) ==
    refillBucket(getOrCreateBucket(bs, userId, t)[userId], t).tokens >= 1

tryConsume(bs, userId, t) ==
    LET b == refillBucket(getOrCreateBucket(bs, userId, t)[userId], t)
    IN  Put(bs, userId, IF b.tokens >= 1 THEN [b EXCEPT !.tokens = @ - 1] ELSE b)

remove(bs, userId) == Erase(bs, userId)

(***************************************************************************)
(* RateLimiter and MutingRateLimiter with any policy, as the unit tests    *)
(* construct them.  tokens is a double in the source: a token amount is    *)
(* counted here in 1/TokenUnit of a token, so that capacities, counts and  *)
(* refills that are fractions of a token occur; tokensPerSecond_ is the    *)
(* amount added per tick of the clock.  Every method returns the object    *)
(* after the call (obj) and the value the call returns (ret).              *)
(***************************************************************************)
TokenUnit == 2
MaxCalls == 3

Keys == {1, 2}
Rates == {1, TokenUnit}
Capacities == {TokenUnit + 1, 2 * TokenUnit}
Counts == {1, TokenUnit + 1, 0 - TokenUnit}
MaxAges == {0, 1}
MuteDurations == {1, 2}
Thresholds == {1, 2}

RateLimiter(tokensPerSecond, maxTokens) ==
    [tokensPerSecond_ |-> tokensPerSecond, maxTokens_ |-> maxTokens, buckets_ |-> EmptyMap]

\* getOrCreateBucket followed by refillBucket: the bucket the call works on
refilled(L, userId, t) ==
    LET bucket == IF userId \in DOMAIN L.buckets_ THEN L.buckets_[userId]
                  ELSE TokenBucket(L.maxTokens_, t)
    IN  [tokens |-> Min(bucket.tokens + (t - bucket.lastRefill) * L.tokensPerSecond_,
                        L.maxTokens_),
         lastRefill |-> t]

\* RateLimiter::tryConsume(userId, count)
tryConsumeCount(L, userId, count, t) ==
    LET bucket == refilled(L, userId, t)
    IN  IF bucket.tokens >= count
        THEN [obj |-> [L EXCEPT !.buckets_ =
                          Put(@, userId, [bucket EXCEPT !.tokens = @ - count])],
              ret |-> TRUE]
        ELSE [obj |-> [L EXCEPT !.buckets_ = Put(@, userId, bucket)], ret |-> FALSE]

\* a tryConsume that needs more than one token in the bucket (the fault C24
\* excludes)
tryConsumeOne_strict(L, userId, t) ==
    LET bucket == refilled(L, userId, t)
    IN  IF bucket.tokens > TokenUnit
        THEN [obj |-> [L EXCEPT !.buckets_ =
                          Put(@, userId, [bucket EXCEPT !.tokens = @ - TokenUnit])],
              ret |-> TRUE]
        ELSE [obj |-> [L EXCEPT !.buckets_ = Put(@, userId, bucket)], ret |-> FALSE]

\* RateLimiter::tryConsume(userId): one token
tryConsumeOne(L, userId, t) == tryConsumeCount(L, userId, TokenUnit, t)

canConsume(L, userId, t) ==
    LET bucket == refilled(L, userId, t)
    IN  [obj |-> [L EXCEPT !.buckets_ = Put(@, userId, bucket)],
         ret |-> bucket.tokens >= TokenUnit]

\* std::nullopt is -1
getTokens(L, userId, t) ==
    IF userId \notin DOMAIN L.buckets_ THEN [obj |-> L, ret |-> 0 - 1]
    ELSE LET bucket == refilled(L, userId, t)
         IN  [obj |-> [L EXCEPT !.buckets_ = Put(@, userId, bucket)], ret |-> bucket.tokens]

\* static_cast<int64_t>((1.0 - tokens) / tokensPerSecond_ * 1000.0), a tick
\* being 1000 ms
getWaitTimeMs(L, userId, t) ==
    LET bucket == refilled(L, userId, t)
    IN  [obj |-> [L EXCEPT !.buckets_ = Put(@, userId, bucket)],
         ret |-> IF bucket.tokens >= TokenUnit THEN 0
                 ELSE ((TokenUnit - bucket.tokens) * 1000) \div L.tokensPerSecond_]

reset(L, userId, t) ==
    [obj |-> IF userId \in DOMAIN L.buckets_
             THEN [L EXCEPT !.buckets_[userId] = TokenBucket(L.maxTokens_, t)]
             ELSE L,
     ret |-> TRUE]

\* a remove that clears every bucket (the fault C25 excludes)
removeBucket_all(L, userId) == [obj |-> [L EXCEPT !.buckets_ = EmptyMap], ret |-> TRUE]

removeBucket(L, userId) == [obj |-> [L EXCEPT !.buckets_ = Erase(@, userId)], ret |-> TRUE]

\* RateLimiter::cleanup: the number of buckets removed is returned
cleanup(L, maxAgeSeconds, t) ==
    LET old == {u \in DOMAIN L.buckets_ : t - L.buckets_[u].lastRefill > maxAgeSeconds}
    IN  [obj |-> [L EXCEPT !.buckets_ = [u \in DOMAIN @ \ old |-> @[u]]],
         ret |-> Cardinality(old)]

MutingRateLimiter(tokensPerSecond, maxTokens, muteDurationMs, violationsBeforeMute) ==
    [limiter_ |-> RateLimiter(tokensPerSecond, maxTokens),
     muteDurationMs_ |-> muteDurationMs, violationsBeforeMute_ |-> violationsBeforeMute,
     violations_ |-> EmptyMap, mutedUntil_ |-> EmptyMap]

\* MutingRateLimiter::tryConsume lines 330-339: the mute test; an expired
\* mute is erased with the violation counter
unmuted(M, userId, t) ==
    IF userId \in DOMAIN M.mutedUntil_ /\ ~(t < M.mutedUntil_[userId])
    THEN [M EXCEPT !.mutedUntil_ = Erase(@, userId), !.violations_ = Erase(@, userId)]
    ELSE M
\* a tryConsume that mutes one refusal late (the fault C26 excludes)
mutingTryConsume_late(M, userId, t) ==
    IF userId \in DOMAIN M.mutedUntil_ /\ t < M.mutedUntil_[userId]
    THEN [obj |-> M, ret |-> FALSE]
    ELSE LET U == unmuted(M, userId, t)
             base == tryConsumeOne(U.limiter_, userId, t)
             count == (IF userId \in DOMAIN U.violations_ THEN U.violations_[userId]
                       ELSE 0) + 1
             V == [U EXCEPT !.limiter_ = base.obj, !.violations_ = Put(@, userId, count)]
         IN  IF base.ret
             THEN [obj |-> [U EXCEPT !.limiter_ = base.obj], ret |-> TRUE]
             ELSE [obj |-> IF count > M.violationsBeforeMute_
                           THEN [V EXCEPT !.mutedUntil_ =
                                    Put(@, userId, t + M.muteDurationMs_)]
                           ELSE V,
                   ret |-> FALSE]

\* MutingRateLimiter::tryConsume
mutingTryConsume(M, userId, t) ==
    IF userId \in DOMAIN M.mutedUntil_ /\ t < M.mutedUntil_[userId]
    THEN [obj |-> M, ret |-> FALSE]
    ELSE LET U == unmuted(M, userId, t)
             base == tryConsumeOne(U.limiter_, userId, t)
             count == (IF userId \in DOMAIN U.violations_ THEN U.violations_[userId]
                       ELSE 0) + 1
             V == [U EXCEPT !.limiter_ = base.obj, !.violations_ = Put(@, userId, count)]
         IN  IF base.ret
             THEN [obj |-> [U EXCEPT !.limiter_ = base.obj], ret |-> TRUE]
             ELSE [obj |-> IF count >= M.violationsBeforeMute_
                           THEN [V EXCEPT !.mutedUntil_ =
                                    Put(@, userId, t + M.muteDurationMs_)]
                           ELSE V,
                   ret |-> FALSE]

isMuted(M, userId, t) ==
    IF userId \notin DOMAIN M.mutedUntil_ THEN [obj |-> M, ret |-> FALSE]
    ELSE IF t >= M.mutedUntil_[userId] THEN [obj |-> unmuted(M, userId, t), ret |-> FALSE]
    ELSE [obj |-> M, ret |-> TRUE]

\* on expiry the mute is erased and violations_ is left as it is; a tick is
\* 1000 ms
getMuteTimeRemainingMs(M, userId, t) ==
    IF userId \notin DOMAIN M.mutedUntil_ THEN [obj |-> M, ret |-> 0]
    ELSE IF t >= M.mutedUntil_[userId]
    THEN [obj |-> [M EXCEPT !.mutedUntil_ = Erase(@, userId)], ret |-> 0]
    ELSE [obj |-> M, ret |-> (M.mutedUntil_[userId] - t) * 1000]

mutingRemove(M, userId) ==
    [obj |-> [M EXCEPT !.limiter_ = removeBucket(@, userId).obj,
                       !.violations_ = Erase(@, userId),
                       !.mutedUntil_ = Erase(@, userId)],
     ret |-> TRUE]

\* a limiter object with the log of the calls made on it
Called(policy) == [obj |-> policy, log |-> <<>>]

NoLimiter == Called(RateLimiter(0, 0))
NoMuting == Called(MutingRateLimiter(0, 0, 0, 0))

\* the functions a caller passes as sendFunc: one that sends the frame to the
\* session, and one that asks the Room for its participant count first
SendFuncs == {"send", "getParticipantCount"}

\* no Room::broadcast or Room::sendTo is running; n counts the calls made,
\* and limit and ret are the argument and the returned vector of the last
\* getStrokesSnapshot
NoCall == [op |-> "none", pc |-> "idle", mutex_ |-> FALSE, todo |-> {}, cur |-> 0,
           sendFunc |-> "none", n |-> 0, limit |-> 0, ret |-> <<>>]

VARIABLES
    rooms,            \* rooms_: roomId -> Room object
    pending,          \* roomsPendingDeletion_: roomId -> deadline
    heap,             \* the Room objects ever constructed
    now,              \* steady_clock
    nextColorIndex,   \* nextColorIndex_
    nextUserId,       \* the userIds generateUserId has handed out
    sess,             \* WsSession: connection state, roomId_, oderId_, handler position
    loc,              \* the running handler's local variables
    inbox,            \* per session, the frames handed to sendFunc for it
    buckets,          \* PresenceService::rateLimiter_.buckets_: userId -> TokenBucket
    emptiedAt,        \* history: roomId -> when and which Room its last participant left
    threads,          \* the number of threads main.cpp runs the io_context on
    limiter,          \* a RateLimiter called directly, with the log of its calls
    muting,           \* a MutingRateLimiter called directly, with the log of its calls
    call              \* a Room method called directly on heap[1]

vars == <<rooms, pending, heap, now, nextColorIndex, nextUserId, sess, loc, inbox,
          buckets, emptiedAt, threads, limiter, muting, call>>


PaletteSize == 15

\* RoomService::getNextColor: a color is its index in colorPalette_
getNextColor(idx) == [color |-> idx, next |-> (idx + 1) % PaletteSize]

NoSession == [conn |-> "none", pc |-> "idle", roomId_ |-> "", oderId_ |-> 0,
              joins |-> 0, edits |-> 0, result |-> "none"]

\* stroke is the Stroke* getStroke returned (a slot of strokes_, 0 = nullptr),
\* vec the seq of the last element of strokes_ when it was returned, and
\* found the seq, the author and the complete flag of the stroke it pointed
\* to then
NoLocals == [room |-> 0, roomId |-> "", password |-> "", oderId |-> 0,
             color |-> 0, seq |-> 0, users |-> {}, strokes |-> <<>>,
             strokeId |-> "", x |-> 0, y |-> 0,
             stroke |-> 0, vec |-> 0, found |-> [seq |-> 0, oderId |-> 0, complete |-> FALSE],
             points |-> <<>>, dx |-> 0, dy |-> 0]

\* the sessions whose WsSession object still exists (weak_ptr::lock succeeds)
Live == {s \in Sessions : sess[s].conn = "open"}

\* a Room object no shared_ptr points to any more is destroyed
Destroyed == [roomId |-> "", password |-> "", participants |-> EmptyMap,
              cursors |-> EmptyMap, strokes |-> <<>>, nextSeq |-> 0]

Release(hp, rs, lc) ==
    [i \in DOMAIN hp |->
        IF i \in {rs[r] : r \in DOMAIN rs} \cup {lc[s].room : s \in Sessions}
        THEN hp[i] ELSE Destroyed]

\* the state after construction, with the connections in Conn accepted
\* the server after construction, the connections of Conn accepted
Started(Conn, n) ==
    /\ rooms = EmptyMap
    /\ pending = EmptyMap
    /\ heap = <<>>
    /\ now = 0
    /\ nextColorIndex = 0
    /\ nextUserId = 1
    /\ sess = [s \in Sessions |->
                 IF s \in Conn THEN [NoSession EXCEPT !.conn = "open"] ELSE NoSession]
    /\ loc = [s \in Sessions |-> NoLocals]
    /\ inbox = [s \in Sessions |-> <<>>]
    /\ buckets = EmptyMap
    /\ emptiedAt = EmptyMap
    /\ threads = n

InitWith(Conn, n) ==
    /\ Started(Conn, n)
    /\ limiter = NoLimiter
    /\ muting = NoMuting
    /\ call = NoCall

\* the handler of session s returns: its locals go out of scope
Return(s, result) ==
    /\ sess' = [sess EXCEPT ![s].pc = "idle", ![s].result = result]
    /\ loc' = [loc EXCEPT ![s] = NoLocals]

Goto(s, pc) == sess' = [sess EXCEPT ![s].pc = pc]

Idle(s) == sess[s].conn = "open" /\ sess[s].pc = "idle"

AllIdle == \A t \in Sessions : sess[t].pc = "idle"

\* main.cpp lines 105-112: with one thread a handler runs to completion before
\* the next one starts; with more, handlers of different sessions overlap
CanRun == threads > 1 \/ AllIdle

\* sendFunc(session, msg) for every session in to: WsSession::send posts msg
\* to the session's strand, which keeps the order of the posts
Hand(to, msg) == [s \in Sessions |-> IF s \in to THEN Append(inbox[s], msg) ELSE inbox[s]]

\* a broadcast that calls sendFunc without locking the weak session pointer
\* (the fault C20 excludes)
Broadcast_unlocked(room, excludeUserId, msg) ==
    [t \in Sessions |->
        LET n == Cardinality({u \in DOMAIN room.participants :
                                /\ u # excludeUserId
                                /\ room.participants[u].session = t})
        IN  inbox[t] \o [i \in 1..n |-> msg]]

\* Room::broadcast: sendFunc is called once for every participant but
\* excludeUserId whose session can still be locked, so a session that is the
\* connection of several participants is handed the frame once for each
Broadcast(room, excludeUserId, msg) ==
    [t \in Sessions |->
        LET n == Cardinality({u \in DOMAIN room.participants :
                                /\ u # excludeUserId
                                /\ room.participants[u].session = t
                                /\ t \in Live})
        IN  inbox[t] \o [i \in 1..n |-> msg]]

\* history of "the last participant left roomId at time t" (written when its
\* leaveRoom finds the Room empty): closed by the first getOrCreateRoom at or
\* after t + grace, by a participant joining, and by deleteRoom
Lookup(roomId) ==
    IF roomId \in DOMAIN emptiedAt /\ now >= emptiedAt[roomId].at + EmptyRoomGrace
    THEN Erase(emptiedAt, roomId) ELSE emptiedAt

(***************************************************************************)
(* The clock and the direct calls of the RoomService API.                  *)
(***************************************************************************)
Tick == /\ now < MaxTime
        /\ now' = now + 1
        /\ UNCHANGED <<rooms, pending, heap, nextColorIndex, nextUserId, buckets, sess,
                       loc, inbox, emptiedAt, threads, limiter, muting, call>>

GetOrCreateRoom(roomId, password) ==
    LET g == getOrCreateRoom(rooms, pending, heap, now, roomId, password)
    IN  /\ CanRun
        /\ g.room <= MaxRooms
        /\ rooms' = g.rooms /\ pending' = g.pending
        /\ heap' = Release(g.heap, rooms', loc)
        /\ emptiedAt' = Lookup(roomId)
        /\ UNCHANGED <<now, nextColorIndex, nextUserId, buckets, sess, loc, inbox,
                       threads, limiter, muting, call>>

GetRoom(roomId) ==
    LET g == getRoom(rooms, pending, now, roomId)
    IN  /\ CanRun
        /\ rooms' = g.rooms /\ pending' = g.pending
        /\ heap' = Release(heap, rooms', loc)
        /\ UNCHANGED <<now, nextColorIndex, nextUserId, buckets, sess, loc, inbox,
                       emptiedAt, threads, limiter, muting, call>>

DeleteRoom(roomId) ==
    /\ CanRun
    /\ rooms' = deleteRoom(rooms, roomId)
    /\ heap' = Release(heap, rooms', loc)
    /\ emptiedAt' = Erase(emptiedAt, roomId)
    /\ UNCHANGED <<pending, now, nextColorIndex, nextUserId, buckets, sess, loc, inbox,
                   threads, limiter, muting, call>>

(***************************************************************************)
(* join_room: WsSession::onMessage -> MessageHandler::handleJoinRoom ->    *)
(* RoomService::joinRoom, one step per critical section.                   *)
(***************************************************************************)
\* line 136: getOrCreateRoom
JoinGetRoom(s, roomId, password) ==
    LET g == getOrCreateRoom(rooms, pending, heap, now, roomId, password)
    IN  /\ Idle(s) /\ CanRun /\ sess[s].joins < MaxJoins
        /\ g.room <= MaxRooms
        /\ rooms' = g.rooms /\ pending' = g.pending
        /\ sess' = [sess EXCEPT ![s].pc = "join_check", ![s].joins = @ + 1,
                                ![s].result = "none"]
        /\ loc' = [loc EXCEPT ![s] = [NoLocals EXCEPT !.room = g.room,
                                        !.roomId = roomId, !.password = password]]
        /\ heap' = Release(g.heap, rooms', loc')
        /\ emptiedAt' = Lookup(roomId)
        /\ UNCHANGED <<now, nextColorIndex, nextUserId, buckets, inbox, threads, limiter, muting, call>>

\* protocol/message_types.hpp errorCodeToString, for the codes the model uses
errorCodeToString(code) ==
    CASE code = "RoomNotFound" -> "ROOM_NOT_FOUND"
      [] code = "RoomFull" -> "ROOM_FULL"
      [] code = "InvalidPassword" -> "INVALID_PASSWORD"
      [] code = "MalformedMessage" -> "MALFORMED_MESSAGE"
      [] code = "InvalidMessageType" -> "INVALID_MESSAGE_TYPE"
      [] code = "MissingField" -> "MISSING_FIELD"
      [] code = "RateLimited" -> "RATE_LIMITED"
      [] code = "InvalidStroke" -> "INVALID_STROKE"
      [] code = "StrokeTooLarge" -> "STROKE_TOO_LARGE"
      [] OTHER -> "INTERNAL_ERROR"

\* MessageCodec::createError
createError(code, seq) == [type |-> "error", seq |-> seq, code |-> errorCodeToString(code)]

\* MessageHandler::handleJoinRoom lines 99-102: a join_room frame without
\* roomId or userName is answered with an error frame (seq 0)
JoinInvalid(s) ==
    /\ Idle(s) /\ CanRun /\ sess[s].joins < MaxJoins
    /\ inbox' = Hand({s}, createError("MissingField", 0))
    /\ sess' = [sess EXCEPT ![s].joins = @ + 1, ![s].result = "MissingField"]
    /\ UNCHANGED <<rooms, pending, heap, now, nextColorIndex, nextUserId, buckets, loc,
                   emptiedAt, threads, limiter, muting, call>>

\* lines 139-146: validatePassword, isFull
JoinCheck(s) ==
    /\ sess[s].pc = "join_check"
    /\ IF ~validatePassword(heap[loc[s].room], loc[s].password)
       THEN Return(s, "InvalidPassword")
       ELSE IF isFull(heap[loc[s].room])
            THEN Return(s, "RoomFull")
            ELSE Goto(s, "join_id") /\ UNCHANGED loc
    /\ heap' = Release(heap, rooms, loc')
    /\ UNCHANGED <<rooms, pending, now, nextColorIndex, nextUserId, buckets, inbox,
                   emptiedAt, threads, limiter, muting, call>>

\* lines 149-150: generateUserId, getNextColor
JoinAssign(s) ==
    /\ sess[s].pc = "join_id"
    /\ loc' = [loc EXCEPT ![s].oderId = nextUserId,
                          ![s].color = getNextColor(nextColorIndex).color]
    /\ nextUserId' = nextUserId + 1
    /\ nextColorIndex' = getNextColor(nextColorIndex).next
    /\ Goto(s, "join_add")
    /\ UNCHANGED <<rooms, pending, heap, now, inbox, buckets, emptiedAt, threads, limiter, muting, call>>

\* lines 153-159: addParticipant
JoinAdd(s) ==
    /\ sess[s].pc = "join_add"
    /\ IF addParticipantOk(heap[loc[s].room])
       THEN /\ heap' = [heap EXCEPT ![loc[s].room] =
                          addParticipant(@, loc[s].oderId,
                                         UserInfo(loc[s].oderId, loc[s].color, s, now))]
            /\ Goto(s, "join_users") /\ UNCHANGED loc
            /\ emptiedAt' = Erase(emptiedAt, loc[s].roomId)
       ELSE /\ Return(s, "RoomFull")
            /\ heap' = Release(heap, rooms, loc')
            /\ UNCHANGED emptiedAt
    /\ UNCHANGED <<rooms, pending, now, nextColorIndex, nextUserId, buckets, inbox,
                   threads, limiter, muting, call>>

\* line 162: getParticipants
JoinUsers(s) ==
    /\ sess[s].pc = "join_users"
    /\ loc' = [loc EXCEPT ![s].users = getParticipants(heap[loc[s].room])]
    /\ Goto(s, "join_wseq")
    /\ UNCHANGED <<rooms, pending, heap, now, nextColorIndex, nextUserId, buckets,
                   inbox, emptiedAt, threads, limiter, muting, call>>
\* the welcome seq read without advancing the counter (the fault C13 excludes)
JoinWelcomeSeq_reads(s) ==
    /\ sess[s].pc = "join_wseq"
    /\ loc' = [loc EXCEPT ![s].seq = heap[loc[s].room].nextSeq]
    /\ Goto(s, "join_wsend")
    /\ UNCHANGED <<rooms, pending, heap, now, nextColorIndex, nextUserId, buckets, inbox,
                   emptiedAt, threads, limiter, muting, call>>

\* line 165: welcomeSeq = room->nextSequence()
JoinWelcomeSeq(s) ==
    /\ sess[s].pc = "join_wseq"
    /\ loc' = [loc EXCEPT ![s].seq = heap[loc[s].room].nextSeq]
    /\ heap' = [heap EXCEPT ![loc[s].room].nextSeq = @ + 1]
    /\ Goto(s, "join_wsend")
    /\ UNCHANGED <<rooms, pending, now, nextColorIndex, nextUserId, buckets, inbox,
                   emptiedAt, threads, limiter, muting, call>>

\* lines 166-169: sendFunc(session, welcomeMsg)
JoinWelcomeSend(s) ==
    /\ sess[s].pc = "join_wsend"
    /\ inbox' = Hand({s}, [type |-> "welcome", seq |-> loc[s].seq,
                           userId |-> loc[s].oderId, users |-> loc[s].users])
    /\ Goto(s, "join_snap")
    /\ UNCHANGED <<rooms, pending, heap, now, nextColorIndex, nextUserId, buckets, loc,
                   emptiedAt, threads, limiter, muting, call>>

\* line 172, BoardService::getSnapshot line 181: getStrokesSnapshot
JoinSnapshot(s) ==
    /\ sess[s].pc = "join_snap"
    /\ loc' = [loc EXCEPT ![s].strokes =
                 getStrokesSnapshot(heap[loc[s].room], SnapshotStrokeLimit)]
    /\ Goto(s, "join_snapseq")
    /\ UNCHANGED <<rooms, pending, heap, now, nextColorIndex, nextUserId, buckets,
                   inbox, emptiedAt, threads, limiter, muting, call>>

\* BoardService::getSnapshot line 182: seq = room.currentSequence()
JoinSnapshotSeq(s) ==
    /\ sess[s].pc = "join_snapseq"
    /\ loc' = [loc EXCEPT ![s].seq = heap[loc[s].room].nextSeq]
    /\ Goto(s, "join_ssend")
    /\ UNCHANGED <<rooms, pending, heap, now, nextColorIndex, nextUserId, buckets,
                   inbox, emptiedAt, threads, limiter, muting, call>>

\* line 173: sendFunc(session, stateMsg)
JoinStateSend(s) ==
    /\ sess[s].pc = "join_ssend"
    /\ inbox' = Hand({s}, [type |-> "room_state", seq |-> loc[s].seq,
                           strokes |-> loc[s].strokes, snapshotSeq |-> loc[s].seq])
    /\ Goto(s, "join_jseq")
    /\ UNCHANGED <<rooms, pending, heap, now, nextColorIndex, nextUserId, buckets, loc,
                   emptiedAt, threads, limiter, muting, call>>

\* line 176: joinSeq = room->nextSequence()
JoinSeq(s) ==
    /\ sess[s].pc = "join_jseq"
    /\ loc' = [loc EXCEPT ![s].seq = heap[loc[s].room].nextSeq]
    /\ heap' = [heap EXCEPT ![loc[s].room].nextSeq = @ + 1]
    /\ Goto(s, "join_bcast")
    /\ UNCHANGED <<rooms, pending, now, nextColorIndex, nextUserId, buckets, inbox,
                   emptiedAt, threads, limiter, muting, call>>

\* lines 177-184: broadcast user_joined to the others, return Success;
\* WsSession::onMessage lines 168-177 then records roomId_ and oderId_
JoinBroadcast(s) ==
    /\ sess[s].pc = "join_bcast"
    /\ inbox' = Broadcast(heap[loc[s].room], loc[s].oderId,
                     [type |-> "user_joined", seq |-> loc[s].seq,
                      userId |-> loc[s].oderId])
    /\ sess' = [sess EXCEPT ![s].pc = "idle", ![s].result = "Success",
                            ![s].roomId_ = loc[s].roomId,
                            ![s].oderId_ = loc[s].oderId]
    /\ loc' = [loc EXCEPT ![s] = NoLocals]
    /\ heap' = Release(heap, rooms, loc')
    /\ UNCHANGED <<rooms, pending, now, nextColorIndex, nextUserId, buckets, emptiedAt,
                   threads, limiter, muting, call>>

(***************************************************************************)
(* The connection closes: WsSession::onRead -> onDisconnect ->             *)
(* RoomService::leaveRoom.  When the handler returns, the WsSession object *)
(* and its write queue are destroyed.                                      *)
(***************************************************************************)
Gone(s) ==
    /\ sess' = [sess EXCEPT ![s] = [NoSession EXCEPT !.conn = "gone"]]
    /\ loc' = [loc EXCEPT ![s] = NoLocals]
    /\ inbox' = [inbox EXCEPT ![s] = <<>>]

\* onDisconnect lines 249-258; leaveRoom lines 193-194: getRoom
Disconnect(s) ==
    /\ Idle(s) /\ CanRun
    /\ IF sess[s].roomId_ = "" \/ sess[s].oderId_ = 0
       THEN Gone(s) /\ UNCHANGED <<rooms, pending, heap>>
       ELSE LET g == getRoom(rooms, pending, now, sess[s].roomId_)
            IN  /\ rooms' = g.rooms /\ pending' = g.pending
                /\ IF g.room = 0
                   THEN Gone(s)
                   ELSE /\ Goto(s, "leave_remove")
                        /\ loc' = [loc EXCEPT ![s] = [NoLocals EXCEPT
                                     !.room = g.room, !.roomId = sess[s].roomId_,
                                     !.oderId = sess[s].oderId_]]
                        /\ UNCHANGED inbox
                /\ heap' = Release(heap, rooms', loc')
    /\ UNCHANGED <<now, nextColorIndex, nextUserId, buckets, emptiedAt, threads, limiter, muting, call>>

\* leaveRoom lines 197-200: removeParticipant, presenceService_.removeUser
LeaveRemove(s) ==
    /\ sess[s].pc = "leave_remove"
    /\ heap' = [heap EXCEPT ![loc[s].room] = removeParticipant(@, loc[s].oderId)]
    /\ buckets' = remove(buckets, loc[s].oderId)
    /\ Goto(s, "leave_seq")
    /\ UNCHANGED <<rooms, pending, now, nextColorIndex, nextUserId, loc, inbox, emptiedAt,
                   threads, limiter, muting, call>>
\* the counter read and left as it is by a draw (the fault C15 excludes)
LeaveSeq_reads(s) ==
    /\ sess[s].pc = "leave_seq"
    /\ loc' = [loc EXCEPT ![s].seq = heap[loc[s].room].nextSeq]
    /\ Goto(s, "leave_bcast")
    /\ UNCHANGED <<rooms, pending, heap, now, nextColorIndex, nextUserId, buckets, inbox,
                   emptiedAt, threads, limiter, muting, call>>

\* leaveRoom line 203: seq = room->nextSequence()
LeaveSeq(s) ==
    /\ sess[s].pc = "leave_seq"
    /\ loc' = [loc EXCEPT ![s].seq = heap[loc[s].room].nextSeq]
    /\ heap' = [heap EXCEPT ![loc[s].room].nextSeq = @ + 1]
    /\ Goto(s, "leave_bcast")
    /\ UNCHANGED <<rooms, pending, now, nextColorIndex, nextUserId, buckets, inbox,
                   emptiedAt, threads, limiter, muting, call>>

\* leaveRoom lines 204-207: broadcast user_left to everyone left
LeaveBroadcast(s) ==
    /\ sess[s].pc = "leave_bcast"
    /\ inbox' = Broadcast(heap[loc[s].room], 0,
                     [type |-> "user_left", seq |-> loc[s].seq,
                      userId |-> loc[s].oderId])
    /\ Goto(s, "leave_empty")
    /\ UNCHANGED <<rooms, pending, heap, now, nextColorIndex, nextUserId, buckets, loc,
                   emptiedAt, threads, limiter, muting, call>>

\* leaveRoom line 210: room->isEmpty()
LeaveIsEmpty(s) ==
    /\ sess[s].pc = "leave_empty"
    /\ IF isEmpty(heap[loc[s].room])
       THEN Goto(s, "leave_sched") /\ UNCHANGED <<loc, inbox, heap>>
       ELSE Gone(s) /\ heap' = Release(heap, rooms, loc')
    /\ UNCHANGED <<rooms, pending, now, nextColorIndex, nextUserId, buckets, emptiedAt,
                   threads, limiter, muting, call>>

\* leaveRoom lines 211-212: roomsPendingDeletion_[roomId] = now + grace,
\* written without roomsMutex_
LeaveSchedule(s) ==
    /\ sess[s].pc = "leave_sched"
    /\ pending' = Put(pending, loc[s].roomId, leaveDeadline(now))
    /\ emptiedAt' = Put(emptiedAt, loc[s].roomId, [at |-> now, room |-> loc[s].room])
    /\ Gone(s)
    /\ heap' = Release(heap, rooms, loc')
    /\ UNCHANGED <<rooms, now, nextColorIndex, nextUserId, buckets, threads, limiter, muting, call>>

(***************************************************************************)
(* stroke_start: MessageHandler::handleStrokeStart ->                      *)
(* RoomService::handleStrokeStart -> BoardService::handleStrokeStart.      *)
(***************************************************************************)
InRoom(s) == sess[s].roomId_ # "" /\ sess[s].oderId_ # 0
\* a drop that still draws a sequence number of the rooms (the fault C30
\* excludes)
Drop_seq(s) ==
    /\ sess' = [sess EXCEPT ![s].edits = @ + 1, ![s].result = "none"]
    /\ heap' = [i \in DOMAIN heap |-> [heap[i] EXCEPT !.nextSeq = @ + 1]]
    /\ UNCHANGED <<rooms, pending, loc>>

\* a frame of a session that has not joined is dropped
\* (message_handler.hpp lines 120, 144)
Drop(s) ==
    /\ sess' = [sess EXCEPT ![s].edits = @ + 1, ![s].result = "none"]
    /\ UNCHANGED <<rooms, pending, heap, loc>>

\* the handler starts with RoomService::getRoom (room_service.hpp lines 228, 249)
Enter(s, pc, args) ==
    LET g == getRoom(rooms, pending, now, sess[s].roomId_)
    IN  /\ rooms' = g.rooms /\ pending' = g.pending
        /\ IF g.room = 0
           THEN /\ sess' = [sess EXCEPT ![s].edits = @ + 1,
                                        ![s].result = "RoomNotFound"]
                /\ UNCHANGED loc
           ELSE /\ sess' = [sess EXCEPT ![s].pc = pc, ![s].edits = @ + 1,
                                        ![s].result = "none"]
                /\ loc' = [loc EXCEPT ![s] = [args EXCEPT !.room = g.room,
                                               !.roomId = sess[s].roomId_,
                                               !.oderId = sess[s].oderId_]]
        /\ heap' = Release(heap, rooms', loc')

StrokeStartGetRoom(s, strokeId) ==
    /\ Idle(s) /\ CanRun /\ sess[s].edits < MaxEdits
    /\ IF InRoom(s) THEN Enter(s, "start_seq", [NoLocals EXCEPT !.strokeId = strokeId])
                    ELSE Drop(s)
    /\ UNCHANGED <<now, nextColorIndex, nextUserId, buckets, inbox, emptiedAt, threads, limiter, muting, call>>

\* board_service.hpp lines 38-39: stroke.seq = room.nextSequence()
StrokeStartSeq(s) ==
    /\ sess[s].pc = "start_seq"
    /\ loc' = [loc EXCEPT ![s].seq = heap[loc[s].room].nextSeq]
    /\ heap' = [heap EXCEPT ![loc[s].room].nextSeq = @ + 1]
    /\ Goto(s, "start_add")
    /\ UNCHANGED <<rooms, pending, now, nextColorIndex, nextUserId, buckets, inbox,
                   emptiedAt, threads, limiter, muting, call>>

\* board_service.hpp line 40: room.addStroke(stroke)
StrokeStartAdd(s) ==
    /\ sess[s].pc = "start_add"
    /\ heap' = [heap EXCEPT ![loc[s].room] =
                  addStroke(@, [Stroke(loc[s].strokeId, loc[s].oderId)
                                   EXCEPT !.seq = loc[s].seq])]
    /\ Goto(s, "start_bcast")
    /\ UNCHANGED <<rooms, pending, now, nextColorIndex, nextUserId, buckets, loc,
                   inbox, emptiedAt, threads, limiter, muting, call>>
\* the broadcast stamped with a second, freshly drawn seq (the behaviour C14
\* describes, which the code does not have)
StrokeStartBroadcast_freshSeq(s) ==
    /\ sess[s].pc = "start_bcast"
    /\ inbox' = Broadcast(heap[loc[s].room], loc[s].oderId,
                     [type |-> "stroke_start", seq |-> heap[loc[s].room].nextSeq,
                      userId |-> loc[s].oderId, strokeId |-> loc[s].strokeId])
    /\ Return(s, "none")
    /\ heap' = Release([heap EXCEPT ![loc[s].room].nextSeq = @ + 1], rooms, loc')
    /\ UNCHANGED <<rooms, pending, now, nextColorIndex, nextUserId, buckets, emptiedAt,
                   threads, limiter, muting, call>>

\* board_service.hpp lines 43-51: the broadcast carries stroke.seq
StrokeStartBroadcast(s) ==
    /\ sess[s].pc = "start_bcast"
    /\ inbox' = Broadcast(heap[loc[s].room], loc[s].oderId,
                     [type |-> "stroke_start", seq |-> loc[s].seq,
                      userId |-> loc[s].oderId, strokeId |-> loc[s].strokeId])
    /\ Return(s, "none")
    /\ heap' = Release(heap, rooms, loc')
    /\ UNCHANGED <<rooms, pending, now, nextColorIndex, nextUserId, buckets, emptiedAt,
                   threads, limiter, muting, call>>

(***************************************************************************)
(* cursor_move: MessageHandler::handleCursorMove ->                        *)
(* RoomService::handleCursorMove -> PresenceService::handleCursorMove.     *)
(***************************************************************************)
CursorGetRoom(s, x, y) ==
    /\ Idle(s) /\ CanRun /\ sess[s].edits < MaxEdits
    /\ IF InRoom(s) THEN Enter(s, "cursor_limit", [NoLocals EXCEPT !.x = x, !.y = y])
                    ELSE Drop(s)
    /\ UNCHANGED <<now, nextColorIndex, nextUserId, buckets, inbox, emptiedAt, threads, limiter, muting, call>>
\* a handleCursorMove that answers a refused move with an error frame (the
\* fault C27 excludes)
CursorConsume_error(s) ==
    /\ sess[s].pc = "cursor_limit"
    /\ buckets' = tryConsume(buckets, loc[s].oderId, now)
    /\ IF tryConsumeOk(buckets, loc[s].oderId, now)
       THEN Goto(s, "cursor_update") /\ UNCHANGED <<loc, heap, inbox>>
       ELSE /\ Return(s, "RateLimited") /\ heap' = Release(heap, rooms, loc')
            /\ inbox' = Hand({s}, createError("RateLimited", 0))
    /\ UNCHANGED <<rooms, pending, now, nextColorIndex, nextUserId, emptiedAt,
                   threads, limiter, muting, call>>

\* presence_service.hpp lines 37-39: rateLimiter_.tryConsume(oderId)
CursorConsume(s) ==
    /\ sess[s].pc = "cursor_limit"
    /\ buckets' = tryConsume(buckets, loc[s].oderId, now)
    /\ IF tryConsumeOk(buckets, loc[s].oderId, now)
       THEN Goto(s, "cursor_update") /\ UNCHANGED <<loc, heap>>
       ELSE Return(s, "RateLimited") /\ heap' = Release(heap, rooms, loc')
    /\ UNCHANGED <<rooms, pending, now, nextColorIndex, nextUserId, inbox, emptiedAt,
                   threads, limiter, muting, call>>

\* presence_service.hpp line 42: room.updateCursor
CursorUpdate(s) ==
    /\ sess[s].pc = "cursor_update"
    /\ heap' = [heap EXCEPT ![loc[s].room] = updateCursor(@, loc[s].oderId, loc[s].x, loc[s].y, now)]
    /\ Goto(s, "cursor_user")
    /\ UNCHANGED <<rooms, pending, now, nextColorIndex, nextUserId, buckets, loc,
                   inbox, emptiedAt, threads, limiter, muting, call>>

\* presence_service.hpp lines 45-48: room.getParticipant
CursorGetParticipant(s) ==
    /\ sess[s].pc = "cursor_user"
    /\ IF getParticipant(heap[loc[s].room], loc[s].oderId)
       THEN Goto(s, "cursor_seq") /\ UNCHANGED <<loc, heap>>
       ELSE Return(s, "RateLimited") /\ heap' = Release(heap, rooms, loc')
    /\ UNCHANGED <<rooms, pending, now, nextColorIndex, nextUserId, buckets, inbox,
                   emptiedAt, threads, limiter, muting, call>>

\* presence_service.hpp line 51: seq = room.nextSequence()
CursorSeq(s) ==
    /\ sess[s].pc = "cursor_seq"
    /\ loc' = [loc EXCEPT ![s].seq = heap[loc[s].room].nextSeq]
    /\ heap' = [heap EXCEPT ![loc[s].room].nextSeq = @ + 1]
    /\ Goto(s, "cursor_bcast")
    /\ UNCHANGED <<rooms, pending, now, nextColorIndex, nextUserId, buckets, inbox,
                   emptiedAt, threads, limiter, muting, call>>

\* presence_service.hpp lines 52-58: broadcast cursor_move to the others
CursorBroadcast(s) ==
    /\ sess[s].pc = "cursor_bcast"
    /\ inbox' = Broadcast(heap[loc[s].room], loc[s].oderId,
                     [type |-> "cursor_move", seq |-> loc[s].seq,
                      userId |-> loc[s].oderId, x |-> loc[s].x, y |-> loc[s].y])
    /\ Return(s, "none")
    /\ heap' = Release(heap, rooms, loc')
    /\ UNCHANGED <<rooms, pending, now, nextColorIndex, nextUserId, buckets, emptiedAt,
                   threads, limiter, muting, call>>
(***************************************************************************)
(* stroke_add, stroke_end, stroke_move: MessageHandler::handleStrokeAdd /  *)
(* End / Move -> RoomService -> BoardService.  Room::getStroke returns a   *)
(* Stroke* under the Room's lock; the tests and the mutation that follow   *)
(* go through that pointer with no lock held.                              *)
(***************************************************************************)
Point(x, y) == [x |-> x, y |-> y]

\* the points arrays of the stroke_add frames sent
PointLists == {<<Point(1, 1)>>, <<Point(1, 1), Point(2, 1)>>}

\* the registry and limiter state no board handler step touches
Untouched == <<rooms, pending, now, nextColorIndex, nextUserId, buckets, emptiedAt, threads, limiter, muting, call>>

\* a board frame arrives: dropped without a recorded room, else getRoom
BoardEnter(s, pc, args) ==
    /\ CanRun /\ sess[s].edits < MaxEdits
    /\ IF InRoom(s) THEN Enter(s, pc, args) ELSE Drop(s)
    /\ UNCHANGED <<now, nextColorIndex, nextUserId, buckets, inbox, emptiedAt, threads, limiter, muting, call>>

\* Stroke* stroke = room.getStroke(strokeId); if (!stroke) return InvalidStroke
GetStrokeStep(s, to) ==
    /\ LET k == getStroke(heap[loc[s].room], loc[s].strokeId)
       IN  IF k = 0
           THEN Return(s, "InvalidStroke") /\ heap' = Release(heap, rooms, loc')
           ELSE /\ loc' = [loc EXCEPT
                          ![s].stroke = k,
                          ![s].vec = vecTag(heap[loc[s].room]),
                          ![s].found = [seq |-> heap[loc[s].room].strokes[k].seq,
                                        oderId |-> heap[loc[s].room].strokes[k].oderId,
                                        complete |-> heap[loc[s].room].strokes[k].complete]]
                /\ Goto(s, to)
                /\ UNCHANGED heap
    /\ UNCHANGED <<Untouched, inbox>>
\* a handler that answers its error code to the sender (the fault C32 excludes)
Fail_error(s, code) ==
    /\ Return(s, code)
    /\ heap' = Release(heap, rooms, loc')
    /\ inbox' = Hand({s}, createError(code, 0))
    /\ UNCHANGED Untouched

\* the handler returns an error code
Fail(s, code) ==
    /\ Return(s, code)
    /\ heap' = Release(heap, rooms, loc')
    /\ UNCHANGED <<Untouched, inbox>>

\* the tests passed
Pass(s, to) == Goto(s, to) /\ UNCHANGED <<Untouched, heap, loc, inbox>>

\* the strokes_ of the room of s's handler
Strokes(s) == heap[loc[s].room].strokes

\* a mutation of the stroke behind the pointer: of the stroke in the slot
\* (after[p] is the stroke of slot p after the mutation), or of freed memory
\* (no stroke of the Room changes)
Mutate(s, to, after) ==
    /\ \E p \in Deref(heap[loc[s].room], loc[s].stroke, loc[s].vec) :
          IF p = 0 THEN UNCHANGED heap
          ELSE heap' = [heap EXCEPT ![loc[s].room].strokes[p] = after[p]]
    /\ Goto(s, to)
    /\ UNCHANGED <<Untouched, loc, inbox>>

\* uint64_t seq = room.nextSequence()
DrawSeq(s, to) ==
    /\ loc' = [loc EXCEPT ![s].seq = heap[loc[s].room].nextSeq]
    /\ heap' = [heap EXCEPT ![loc[s].room].nextSeq = @ + 1]
    /\ Goto(s, to)
    /\ UNCHANGED <<Untouched, inbox>>

\* room.broadcast(message, oderId, ...); return std::nullopt
BroadcastAndReturn(s, msg) ==
    /\ inbox' = Broadcast(heap[loc[s].room], loc[s].oderId, msg)
    /\ Return(s, "none")
    /\ heap' = Release(heap, rooms, loc')
    /\ UNCHANGED Untouched

\* room_service.hpp lines 265-271: getRoom, then updateLastSeen, which only
\* writes the participant's lastActivity
StrokeAddGetRoom(s, strokeId, points) ==
    /\ Idle(s)
    /\ BoardEnter(s, "add_find", [NoLocals EXCEPT !.strokeId = strokeId,
                                                  !.points = points])

\* board_service.hpp lines 66-69
StrokeAddGetStroke(s) ==
    /\ sess[s].pc = "add_find"
    /\ GetStrokeStep(s, "add_check")

\* board_service.hpp lines 72-84: ownership, completeness and the point
\* limit, read through the pointer
StrokeAddCheck(s) ==
    /\ sess[s].pc = "add_check"
    /\ \E p \in Deref(heap[loc[s].room], loc[s].stroke, loc[s].vec) :
          IF p = 0
          THEN \/ Fail(s, "InvalidStroke") \/ Fail(s, "StrokeTooLarge")
               \/ Pass(s, "add_points")
          ELSE LET stroke == heap[loc[s].room].strokes[p]
               IN  IF stroke.oderId # loc[s].oderId \/ stroke.complete
                   THEN Fail(s, "InvalidStroke")
                   ELSE IF pointCount(stroke) + Len(loc[s].points) > MaxPointsPerStroke
                        THEN Fail(s, "StrokeTooLarge")
                        ELSE Pass(s, "add_points")

\* board_service.hpp line 87: stroke->addPoints(points)
StrokeAddPoints(s) ==
    /\ sess[s].pc = "add_points"
    /\ Mutate(s, "add_seq", [p \in DOMAIN Strokes(s) |->
                                addPoints(Strokes(s)[p], loc[s].points)])

\* board_service.hpp line 90
StrokeAddSeq(s) ==
    /\ sess[s].pc = "add_seq"
    /\ DrawSeq(s, "add_bcast")

\* board_service.hpp lines 91-97
StrokeAddBroadcast(s) ==
    /\ sess[s].pc = "add_bcast"
    /\ BroadcastAndReturn(s,
        [type |-> "stroke_add", seq |-> loc[s].seq, userId |-> loc[s].oderId,
         strokeId |-> loc[s].strokeId, points |-> loc[s].points])

\* room_service.hpp lines 283-288
StrokeEndGetRoom(s, strokeId) ==
    /\ Idle(s)
    /\ BoardEnter(s, "end_find", [NoLocals EXCEPT !.strokeId = strokeId])

\* board_service.hpp lines 111-114
StrokeEndGetStroke(s) ==
    /\ sess[s].pc = "end_find"
    /\ GetStrokeStep(s, "end_check")

\* board_service.hpp lines 117-119: ownership
StrokeEndCheck(s) ==
    /\ sess[s].pc = "end_check"
    /\ \E p \in Deref(heap[loc[s].room], loc[s].stroke, loc[s].vec) :
          IF p = 0
          THEN Fail(s, "InvalidStroke") \/ Pass(s, "end_finish")
          ELSE IF heap[loc[s].room].strokes[p].oderId # loc[s].oderId
               THEN Fail(s, "InvalidStroke")
               ELSE Pass(s, "end_finish")

\* board_service.hpp line 122: stroke->finish()
StrokeEndFinish(s) ==
    /\ sess[s].pc = "end_finish"
    /\ Mutate(s, "end_seq", [p \in DOMAIN Strokes(s) |-> finish(Strokes(s)[p])])

\* board_service.hpp line 125
StrokeEndSeq(s) ==
    /\ sess[s].pc = "end_seq"
    /\ DrawSeq(s, "end_bcast")

\* board_service.hpp lines 126-132
StrokeEndBroadcast(s) ==
    /\ sess[s].pc = "end_bcast"
    /\ BroadcastAndReturn(s,
        [type |-> "stroke_end", seq |-> loc[s].seq, userId |-> loc[s].oderId,
         strokeId |-> loc[s].strokeId])

\* room_service.hpp lines 299-304
StrokeMoveGetRoom(s, strokeId, dx, dy) ==
    /\ Idle(s)
    /\ BoardEnter(s, "move_find", [NoLocals EXCEPT !.strokeId = strokeId,
                                                   !.dx = dx, !.dy = dy])

\* board_service.hpp lines 146-149
StrokeMoveGetStroke(s) ==
    /\ sess[s].pc = "move_find"
    /\ GetStrokeStep(s, "move_check")

\* board_service.hpp lines 152-159: ownership, only complete strokes move
StrokeMoveCheck(s) ==
    /\ sess[s].pc = "move_check"
    /\ \E p \in Deref(heap[loc[s].room], loc[s].stroke, loc[s].vec) :
          IF p = 0
          THEN Fail(s, "InvalidStroke") \/ Pass(s, "move_translate")
          ELSE LET stroke == heap[loc[s].room].strokes[p]
               IN  IF stroke.oderId # loc[s].oderId \/ ~stroke.complete
                   THEN Fail(s, "InvalidStroke")
                   ELSE Pass(s, "move_translate")

\* board_service.hpp line 162: stroke->translate(dx, dy)
StrokeMoveTranslate(s) ==
    /\ sess[s].pc = "move_translate"
    /\ Mutate(s, "move_seq", [p \in DOMAIN Strokes(s) |->
                                 translate(Strokes(s)[p], loc[s].dx, loc[s].dy)])

\* board_service.hpp line 165
StrokeMoveSeq(s) ==
    /\ sess[s].pc = "move_seq"
    /\ DrawSeq(s, "move_bcast")

\* board_service.hpp lines 166-172
StrokeMoveBroadcast(s) ==
    /\ sess[s].pc = "move_bcast"
    /\ BroadcastAndReturn(s,
        [type |-> "stroke_move", seq |-> loc[s].seq, userId |-> loc[s].oderId,
         strokeId |-> loc[s].strokeId, dx |-> loc[s].dx, dy |-> loc[s].dy])

StrokeAdd(s) ==
    \/ \E k \in StrokeIds, pts \in PointLists : StrokeAddGetRoom(s, k, pts)
    \/ StrokeAddGetStroke(s) \/ StrokeAddCheck(s) \/ StrokeAddPoints(s)
    \/ StrokeAddSeq(s) \/ StrokeAddBroadcast(s)

StrokeEnd(s) ==
    \/ \E k \in StrokeIds : StrokeEndGetRoom(s, k)
    \/ StrokeEndGetStroke(s) \/ StrokeEndCheck(s) \/ StrokeEndFinish(s)
    \/ StrokeEndSeq(s) \/ StrokeEndBroadcast(s)

StrokeMove(s) ==
    \/ \E k \in StrokeIds : StrokeMoveGetRoom(s, k, 1, 0)
    \/ StrokeMoveGetStroke(s) \/ StrokeMoveCheck(s) \/ StrokeMoveTranslate(s)
    \/ StrokeMoveSeq(s) \/ StrokeMoveBroadcast(s)

Join(s) ==
    \/ \E r \in RoomIds, p \in Passwords : JoinGetRoom(s, r, p)
    \/ JoinInvalid(s)
    \/ JoinCheck(s) \/ JoinAssign(s) \/ JoinAdd(s) \/ JoinUsers(s)
    \/ JoinWelcomeSeq(s) \/ JoinWelcomeSend(s) \/ JoinSnapshot(s)
    \/ JoinSnapshotSeq(s) \/ JoinStateSend(s) \/ JoinSeq(s) \/ JoinBroadcast(s)

\* leaveRoom up to its test of room->isEmpty()
LeaveOccupied(s) ==
    \/ Disconnect(s) \/ LeaveRemove(s) \/ LeaveSeq(s) \/ LeaveBroadcast(s)
    \/ LeaveIsEmpty(s)

Leave(s) == LeaveOccupied(s) \/ LeaveSchedule(s)

StrokeStart(s) ==
    \/ \E k \in StrokeIds : StrokeStartGetRoom(s, k)
    \/ StrokeStartSeq(s) \/ StrokeStartAdd(s) \/ StrokeStartBroadcast(s)

CursorMove(s) ==
    \/ \E x \in XCoords, y \in YCoords : CursorGetRoom(s, x, y)
    \/ CursorConsume(s) \/ CursorUpdate(s) \/ CursorGetParticipant(s)
    \/ CursorSeq(s) \/ CursorBroadcast(s)

(***************************************************************************)
(* The state after the sessions of js joined room "R" one after another    *)
(* (joinRoom lines 136-184 run to completion for each, at time 0, with no  *)
(* password), the connections in others being accepted but not joined.     *)
(***************************************************************************)
JoinedRoom(js) ==
    [roomId |-> "R", password |-> "",
     participants |-> [u \in 1..Len(js) |-> UserInfo(u, (u - 1) % PaletteSize, js[u], 0)],
     cursors |-> [u \in 1..Len(js) |-> CursorState(u, 0, 0)],
     strokes |-> <<>>, nextSeq |-> 2 * Len(js) + 1]

JoinedInbox(js, i) ==
    <<[type |-> "welcome", seq |-> 2 * i - 1, userId |-> i, users |-> 1..i],
      [type |-> "room_state", seq |-> 2 * i, strokes |-> <<>>, snapshotSeq |-> 2 * i]>>
    \o [j \in 1..(Len(js) - i) |->
          [type |-> "user_joined", seq |-> 2 * (i + j), userId |-> i + j]]

InitJoined(js, others, n) ==
    LET idx(s) == CHOOSE i \in 1..Len(js) : js[i] = s
        in(s) == \E i \in 1..Len(js) : js[i] = s
    IN  /\ rooms = Put(EmptyMap, "R", 1)
        /\ pending = EmptyMap
        /\ heap = <<JoinedRoom(js)>>
        /\ now = 0
        /\ nextColorIndex = Len(js) % PaletteSize
        /\ nextUserId = Len(js) + 1
        /\ sess = [s \in Sessions |->
                     IF in(s) THEN [NoSession EXCEPT !.conn = "open", !.roomId_ = "R",
                                                     !.oderId_ = idx(s), !.joins = 1,
                                                     !.result = "Success"]
                     ELSE IF s \in others THEN [NoSession EXCEPT !.conn = "open"]
                     ELSE NoSession]
        /\ loc = [s \in Sessions |-> NoLocals]
        /\ inbox = [s \in Sessions |-> IF in(s) THEN JoinedInbox(js, idx(s)) ELSE <<>>]
        /\ buckets = EmptyMap
        /\ emptiedAt = EmptyMap
    /\ threads = n
    /\ limiter = NoLimiter
    /\ muting = NoMuting
    /\ call = NoCall

(***************************************************************************)
(* Spec: the registry under concurrency.  Two connections join and leave   *)
(* on the io_context's threads while the clock advances and other          *)
(* handlers reach the registry through getRoom.                            *)
(***************************************************************************)
Init == InitWith({"s1", "s2"}, 2)

Next ==
    \/ Tick
    \/ \E r \in RoomIds : GetRoom(r)
    \/ \E s \in Sessions : Join(s)
    \/ \E s \in Sessions : Leave(s)

Spec == Init /\ [][Next]_vars

(***************************************************************************)
(* SpecSeq: the server on one thread (hardware_concurrency = 1, or the     *)
(* unit tests' direct calls): a handler runs to completion before the next *)
(* starts, and the RoomService API is called between handlers.             *)
(***************************************************************************)
SeqInit == InitWith({"s1", "s2"}, 1)

SeqNext ==
    \/ Tick
    \/ \E r \in RoomIds, p \in Passwords : GetOrCreateRoom(r, p)
    \/ \E r \in RoomIds : GetRoom(r)
    \/ \E r \in RoomIds : DeleteRoom(r)
    \/ \E s \in Sessions : Join(s)
    \/ \E s \in Sessions : Leave(s)
    \/ \E s \in Sessions : StrokeStart(s)
    \/ \E s \in Sessions : CursorMove(s)

SpecSeq == SeqInit /\ [][SeqNext]_vars

(***************************************************************************)
(* SpecBoard: three users already in room "R" draw and move their cursors  *)
(* concurrently while the third may disconnect.  The other two stay, so    *)
(* the Room never empties and leaveRoom never schedules a deletion.        *)
(***************************************************************************)
BoardInit == InitJoined(<<"s1", "s2", "s3">>, {}, 2)

BoardNext ==
    \/ \E s \in Sessions : StrokeStart(s)
    \/ \E s \in Sessions : CursorMove(s)
    \/ \E s \in {"s3"} : LeaveOccupied(s)

SpecBoard == BoardInit /\ [][BoardNext]_vars

(***************************************************************************)
(* SpecFull: two users are in room "R" and two more connections join       *)
(* concurrently while the first may disconnect.  The second stays, so the  *)
(* Room never empties and leaveRoom never schedules a deletion.            *)
(***************************************************************************)
FullInit == InitJoined(<<"s1", "s2">>, {"s3", "s4"}, 2)

FullNext ==
    \/ \E s \in Sessions : Join(s)
    \/ \E s \in {"s1"} : LeaveOccupied(s)

SpecFull == FullInit /\ [][FullNext]_vars

(***************************************************************************)
(* SpecLive: the one-thread server with the progress the code's scheduling *)
(* gives: the clock advances, a handler that started runs to its end, and  *)
(* registry accesses keep coming (every handler starts with one).  A       *)
(* connection closes only while the deadline its leaveRoom would store is  *)
(* still within the modelled clock range.                                  *)
(***************************************************************************)
LiveNext ==
    \/ Tick
    \/ \E r \in RoomIds, p \in Passwords : GetOrCreateRoom(r, p)
    \/ \E r \in RoomIds : GetRoom(r)
    \/ \E s \in Sessions : Join(s)
    \/ \E s \in Sessions : now + EmptyRoomGrace <= MaxTime /\ Disconnect(s)
    \/ \E s \in Sessions : LeaveRemove(s) \/ LeaveSeq(s) \/ LeaveBroadcast(s)
    \/ \E s \in Sessions : LeaveIsEmpty(s) \/ LeaveSchedule(s)

\* a handler that has started takes its next step
Continue == \E s \in Sessions : sess[s].pc # "idle" /\ (Join(s) \/ Leave(s))

SpecLive ==
    /\ SeqInit /\ [][LiveNext]_vars
    /\ WF_vars(Tick)
    /\ WF_vars(\E r \in RoomIds : GetRoom(r))
    /\ WF_vars(Continue)

(***************************************************************************)
(* The claims.                                                             *)
(***************************************************************************)
BroadcastTypes == {"user_joined", "user_left", "stroke_start", "cursor_move"}

\* C1: every recipient is handed the broadcast frames of a Room in strictly
\* increasing seq order: a broadcast handed before another has the smaller seq.
C1_BroadcastsInSeqOrder ==
    \A s \in Sessions : \A i, j \in DOMAIN inbox[s] :
        (i < j /\ inbox[s][i].type \in BroadcastTypes
               /\ inbox[s][j].type \in BroadcastTypes)
            => inbox[s][i].seq < inbox[s][j].seq

\* C2: cleanup never removes a Room that has a participant: a connection
\* whose join succeeded and which has not left finds its Room through getRoom,
\* and is a participant of it.
C2_JoinedUserReachesRoom ==
    \A s \in Sessions :
        (sess[s].pc = "idle" /\ InRoom(s)) =>
            LET g == getRoom(rooms, pending, now, sess[s].roomId_)
            IN  g.room # 0 /\ sess[s].oderId_ \in DOMAIN heap[g.room].participants

\* C3: every roomId in pendingDeletion is also in rooms, and its Room has no
\* participants.
C3_PendingRoomsRegisteredAndEmpty ==
    \A r \in DOMAIN pending : roomExists(rooms, r) /\ isEmpty(heap[rooms[r]])

\* C4: in every state of every Room the key set of cursors equals the key
\* set of participants.
C4_CursorsMatchParticipants ==
    \A i \in DOMAIN heap : DOMAIN heap[i].cursors = DOMAIN heap[i].participants

\* a participant has just been removed from a Room another participant is in
C4_Witness ==
    \E s \in Sessions :
        /\ sess[s].pc = "leave_seq"
        /\ ~isEmpty(heap[loc[s].room])
        /\ loc[s].oderId \notin DOMAIN heap[loc[s].room].participants

\* C10: a connection whose join_room failed with ROOM_FULL or INVALID_PASSWORD
\* has been sent an error frame with that code, and is in no room.
C10_FailedJoinGetsErrorFrame ==
    \A s \in Sessions :
        sess[s].result \in {"RoomFull", "InvalidPassword"} =>
            /\ \E i \in DOMAIN inbox[s] :
                  /\ inbox[s][i].type = "error"
                  /\ inbox[s][i].code = errorCodeToString(sess[s].result)
            /\ ~InRoom(s)

\* C5: a Room never has more than maxUsers participants, and a joinRoom that
\* finds the Room full returns ROOM_FULL, adds no participant and hands
\* nobody a frame.
C5_NeverOverfull ==
    /\ [](\A i \in DOMAIN heap :
             Cardinality(DOMAIN heap[i].participants) <= MaxUsersPerRoom)
    /\ [][\A s \in Sessions :
             (/\ sess[s].pc \in {"join_check", "join_add"}
              /\ validatePassword(heap[loc[s].room], loc[s].password)
              /\ Cardinality(DOMAIN heap[loc[s].room].participants) = MaxUsersPerRoom
              /\ sess'[s].pc # sess[s].pc)
             => /\ sess'[s].pc = "idle" /\ sess'[s].result = "RoomFull"
                /\ sess'[s].roomId_ = sess[s].roomId_
                /\ sess'[s].oderId_ = sess[s].oderId_
                /\ heap'[loc[s].room].participants = heap[loc[s].room].participants
                /\ inbox' = inbox]_vars

\* a join has been refused by a Room that holds maxUsers participants
C5_Witness ==
    \E s \in Sessions :
        /\ sess[s].result = "RoomFull"
        /\ \E i \in DOMAIN heap :
              Cardinality(DOMAIN heap[i].participants) = MaxUsersPerRoom

\* C6: a Room never stores more than maxStrokes strokes, and eviction is
\* FIFO: adding a stroke appends it and, at capacity, drops the oldest one,
\* so the Room holds the most recently added strokes in insertion order.
C6_StrokesBoundedFifo ==
    /\ [](\A i \in DOMAIN heap : Len(heap[i].strokes) <= MaxStrokesPerRoom)
    /\ [][\A s \in Sessions :
             (sess[s].pc = "start_add" /\ sess'[s].pc # "start_add") =>
                LET old == heap[loc[s].room].strokes
                    new == heap'[loc[s].room].strokes
                IN  /\ Len(new) >= 1
                    /\ new[Len(new)].seq = loc[s].seq
                    /\ new[Len(new)].strokeId = loc[s].strokeId
                    /\ new = IF Len(old) < MaxStrokesPerRoom
                             THEN Append(old, new[Len(new)])
                             ELSE Append(Tail(old), new[Len(new)])]_vars

\* a handler has added its stroke and the stroke has already been evicted
\* from a Room that is at capacity
C6_Witness ==
    \E s \in Sessions :
        /\ sess[s].pc = "start_bcast"
        /\ Len(heap[loc[s].room].strokes) = MaxStrokesPerRoom
        /\ \A k \in DOMAIN heap[loc[s].room].strokes :
              heap[loc[s].room].strokes[k].seq # loc[s].seq

\* a call of getOrCreateRoom(roomId, _), direct or as joinRoom's first step
GetOrCreateStep(roomId) ==
    \/ \E p \in Passwords : GetOrCreateRoom(roomId, p)
    \/ \E s \in Sessions, p \in Passwords : JoinGetRoom(s, roomId, p)

\* C7: after the last participant left R at time t, R stays registered; a
\* getOrCreateRoom or joinRoom for R before t + grace gets the same Room with
\* its strokes, and the first getOrCreateRoom for R at or after t + grace
\* gets a fresh Room with no strokes.
C7_SameRoomThenFresh ==
    [][\A r \in DOMAIN emptiedAt :
          /\ (now < emptiedAt[r].at + EmptyRoomGrace) => roomExists(rooms, r)
          /\ GetOrCreateStep(r) =>
                IF now < emptiedAt[r].at + EmptyRoomGrace
                THEN /\ rooms'[r] = emptiedAt[r].room
                     /\ heap'[rooms'[r]].strokes = heap[emptiedAt[r].room].strokes
                ELSE /\ rooms'[r] # emptiedAt[r].room
                     /\ heap'[rooms'[r]].strokes = <<>>]_vars

\* the leaveRoom of a Room's only participant returns
LastLeaveReturns(s) == sess[s].pc = "leave_sched" /\ sess'[s].conn = "gone"

EmptyRegistered(i) ==
    /\ i \in DOMAIN heap
    /\ \E r \in DOMAIN rooms : rooms[r] = i
    /\ isEmpty(heap[i])

\* C9: every registered Room without participants that receives no
\* successful join is eventually deleted from rooms, however it became empty
\* and whatever failed joins it received.
C9_EmptyRoomEventuallyDeleted ==
    \A i \in 1..MaxRooms : EmptyRegistered(i) ~> ~EmptyRegistered(i)

\* joinRoom's password test (lines 139-141) is about to run for s against a
\* Room whose password is set and differs from the supplied one
WrongPassword(s) ==
    /\ sess[s].pc = "join_check"
    /\ heap[loc[s].room].password # ""
    /\ heap[loc[s].room].password # loc[s].password

\* C11: a joinRoom whose password differs from the room's non-empty password
\* returns InvalidPassword without adding a participant, handing a frame to
\* anyone or drawing a sequence number; a joinRoom with the matching password
\* passes the test and, the room not being full, runs through to Success.
C11_WrongPasswordRejected ==
    [][\A s \in Sessions :
         /\ (WrongPassword(s) /\ sess'[s].pc # "join_check") =>
               /\ sess'[s].pc = "idle" /\ sess'[s].result = "InvalidPassword"
               /\ sess'[s].roomId_ = sess[s].roomId_
               /\ heap' = heap /\ inbox' = inbox
         /\ (sess[s].pc = "join_check" /\ ~WrongPassword(s)
               /\ ~isFull(heap[loc[s].room]) /\ sess'[s].pc # "join_check") =>
               sess'[s].pc = "join_id"
         /\ (sess[s].pc \in {"join_id", "join_add", "join_users", "join_wseq",
                             "join_wsend", "join_snap", "join_snapseq",
                             "join_ssend", "join_jseq", "join_bcast"}
               /\ sess'[s].pc = "idle") =>
               sess'[s].result = "Success"
    ]_vars

\* one join was refused for its password and a later one, with the matching
\* password, is at the password test of the same Room
C11_Witness ==
    \E s, t \in Sessions :
        /\ sess[s].result = "InvalidPassword"
        /\ sess[t].pc = "join_check"
        /\ heap[loc[t].room].password = "pw" /\ loc[t].password = "pw"
        /\ heap[loc[t].room].participants = EmptyMap

(***************************************************************************)
(* SpecRejoin: one connection has joined room "R" and a second one is      *)
(* accepted.  Either may send join_room (the first one for the second      *)
(* time: MessageHandler::handle routes every join_room frame to joinRoom,  *)
(* whatever roomId_ and oderId_ the connection already carries) and either *)
(* may close, on the io_context's threads.                                 *)
(***************************************************************************)
RejoinInit ==
    /\ rooms = Put(EmptyMap, "R", 1)
    /\ pending = EmptyMap
    /\ heap = <<JoinedRoom(<<"s1">>)>>
    /\ now = 0
    /\ nextColorIndex = 1
    /\ nextUserId = 2
    /\ sess = [s \in Sessions |->
                 IF s = "s1" THEN [NoSession EXCEPT !.conn = "open", !.roomId_ = "R",
                                                    !.oderId_ = 1, !.result = "Success"]
                 ELSE IF s = "s2" THEN [NoSession EXCEPT !.conn = "open"]
                 ELSE NoSession]
    /\ loc = [s \in Sessions |-> NoLocals]
    /\ inbox = [s \in Sessions |-> IF s = "s1" THEN JoinedInbox(<<"s1">>, 1) ELSE <<>>]
    /\ buckets = EmptyMap
    /\ emptiedAt = EmptyMap
    /\ threads = 2
    /\ limiter = NoLimiter
    /\ muting = NoMuting
    /\ call = NoCall

RejoinNext ==
    \/ \E s \in Sessions : Join(s)
    \/ \E s \in Sessions : Leave(s)

SpecRejoin == RejoinInit /\ [][RejoinNext]_vars

\* the positions of joinRoom between addParticipant and its return
JoinSteps == {"join_users", "join_wseq", "join_wsend", "join_snap", "join_snapseq",
              "join_ssend", "join_jseq", "join_bcast"}

\* the step of session s hands frame f to exactly the sessions in to
Hands(to, type, userId) ==
    \A t \in Sessions :
        IF t \in to
        THEN /\ Len(inbox'[t]) = Len(inbox[t]) + 1
             /\ SubSeq(inbox'[t], 1, Len(inbox[t])) = inbox[t]
             /\ inbox'[t][Len(inbox'[t])].type = type
             /\ inbox'[t][Len(inbox'[t])].userId = userId
        ELSE inbox'[t] = inbox[t]

\* C12: a successful joinRoom hands the joiner's connection exactly two
\* frames, welcome and then room_state; the welcome lists the participants
\* joinRoom read after adding the joiner, the joiner among them; the
\* user_joined that follows is handed to the live connection of every other
\* participant and not to the joiner's.
C12_WelcomeStateThenUserJoined ==
    [][\A s \in Sessions :
         (sess[s].pc \in JoinSteps /\ sess'[s].pc # sess[s].pc) =>
            LET room == heap[loc[s].room]
                others == {room.participants[u].session :
                             u \in DOMAIN room.participants \ {loc[s].oderId}}
            IN  CASE sess[s].pc = "join_users" ->
                       /\ loc'[s].users = DOMAIN room.participants
                       /\ loc[s].oderId \in loc'[s].users
                       /\ inbox' = inbox
                  [] sess[s].pc = "join_wsend" ->
                       /\ Hands({s}, "welcome", loc[s].oderId)
                       /\ inbox'[s][Len(inbox'[s])].users = loc[s].users
                       /\ sess'[s].pc = "join_snap"
                  [] sess[s].pc = "join_ssend" ->
                       /\ \A t \in Sessions \ {s} : inbox'[t] = inbox[t]
                       /\ inbox'[s] = Append(inbox[s], inbox'[s][Len(inbox'[s])])
                       /\ inbox'[s][Len(inbox'[s])].type = "room_state"
                  [] sess[s].pc = "join_bcast" ->
                       /\ Hands((others \cap Live) \ {s}, "user_joined", loc[s].oderId)
                       /\ sess'[s].result = "Success"
                  [] OTHER -> inbox' = inbox
    ]_vars

\* the last frame of the given type handed to session s
LastFrame(s, type) ==
    inbox[s][CHOOSE i \in DOMAIN inbox[s] :
               /\ inbox[s][i].type = type
               /\ \A j \in DOMAIN inbox[s] : j > i => inbox[s][j].type # type]

\* joinRoom line 177 is about to broadcast user_joined for s, whose welcome
\* and room_state have been handed over
JoinBroadcasts(s) == sess[s].pc = "join_bcast" /\ sess'[s].pc = "idle"

\* C13 as stated: the seq of welcome, of room_state and of the user_joined
\* broadcast of one successful joinRoom are pairwise different and strictly
\* increasing in that order.
C13_ThreeSeqsIncreasing ==
    [][\A s \in Sessions : JoinBroadcasts(s) =>
          /\ LastFrame(s, "welcome").seq < LastFrame(s, "room_state").seq
          /\ LastFrame(s, "room_state").seq < loc[s].seq
          /\ \A t \in Sessions : inbox'[t] # inbox[t] =>
                inbox'[t][Len(inbox'[t])].seq = loc[s].seq
    ]_vars

\* C13 amended: welcome and user_joined carry sequence numbers drawn with
\* nextSequence; room_state carries currentSequence, read without drawing,
\* as both its seq and its snapshotSeq.  So welcome.seq < room_state.seq <=
\* user_joined.seq, and welcome.seq < user_joined.seq.
C13_StateSeqReadNotDrawn ==
    [][\A s \in Sessions :
         /\ JoinBroadcasts(s) =>
              /\ LastFrame(s, "welcome").seq < LastFrame(s, "room_state").seq
              /\ LastFrame(s, "room_state").seq <= loc[s].seq
              /\ LastFrame(s, "room_state").snapshotSeq = LastFrame(s, "room_state").seq
              /\ \A t \in Sessions : inbox'[t] # inbox[t] =>
                    inbox'[t][Len(inbox'[t])].seq = loc[s].seq
         /\ (sess[s].pc = "join_snapseq" /\ sess'[s].pc = "join_ssend") =>
              /\ heap' = heap
              /\ loc'[s].seq = heap[loc[s].room].nextSeq
         /\ (sess[s].pc \in {"join_wseq", "join_jseq"} /\ sess'[s].pc # sess[s].pc) =>
              /\ loc'[s].seq = heap[loc[s].room].nextSeq
              /\ heap'[loc[s].room].nextSeq = heap[loc[s].room].nextSeq + 1
    ]_vars

\* a join is about to broadcast user_joined with the seq its room_state
\* already carries, to another participant
C13_Witness ==
    \E s \in Sessions :
        /\ sess[s].pc = "join_bcast"
        /\ LastFrame(s, "room_state").seq = loc[s].seq
        /\ broadcastTo(heap[loc[s].room], loc[s].oderId, Live) # {}

\* handleStrokeStart lines 43-51: s broadcasts stroke_start and returns
StrokeStartBroadcasts(s) == sess[s].pc = "start_bcast" /\ sess'[s].pc = "idle"

DrawSteps == {"join_wseq", "join_jseq", "leave_seq", "start_seq", "cursor_seq"}

\* the handler positions at which loc.seq holds the value nextSequence()
\* returned to this handler
HoldsDrawn == {"join_wsend", "join_bcast", "leave_bcast", "start_add", "start_bcast",
               "cursor_bcast"}

\* C15: a fresh Room's counter is 1; every nextSequence call returns the
\* counter and advances it by exactly one, whichever thread calls, so values
\* returned to handlers of one Room are pairwise different; no other step,
\* currentSequence included, moves the counter.
C15_SequenceDrawsUnique ==
    /\ [](\A s, t \in Sessions :
            (sess[s].pc \in HoldsDrawn /\ sess[t].pc \in HoldsDrawn /\ s # t
               /\ loc[s].room = loc[t].room) =>
                 /\ loc[s].seq # loc[t].seq
                 /\ loc[s].seq >= 1
                 /\ loc[s].seq < heap[loc[s].room].nextSeq)
    /\ [][\A i \in DOMAIN heap' :
            IF i \notin DOMAIN heap
            THEN heap'[i].nextSeq = 1
            ELSE \/ heap'[i] = Destroyed
                 \/ LET drawing == {s \in Sessions : /\ sess[s].pc \in DrawSteps
                                                     /\ sess'[s].pc # sess[s].pc
                                                     /\ loc[s].room = i}
                    IN  IF drawing = {}
                        THEN heap'[i].nextSeq = heap[i].nextSeq
                        ELSE /\ heap'[i].nextSeq = heap[i].nextSeq + 1
                             /\ \A s \in drawing : loc'[s].seq = heap[i].nextSeq
      ]_vars

\* two handlers on different threads hold sequence numbers drawn from the
\* same Room at the same time
C15_Witness ==
    \E s, t \in Sessions :
        /\ s # t /\ loc[s].room = loc[t].room
        /\ sess[s].pc = "join_bcast" /\ sess[t].pc = "leave_bcast"

(***************************************************************************)
(* SpecDraw: three users are in room "R" and two strokes are stored, which *)
(* fills the Room (MaxStrokesPerRoom): user 1 sent stroke_start k1, user 2 *)
(* stroke_start k2 and stroke_add k2 with one point, and then each may     *)
(* have sent stroke_end.  Users 1 and 2 now send stroke_add, stroke_end    *)
(* and stroke_move frames while user 3 starts strokes, on the io_context's *)
(* threads.                                                                *)
(***************************************************************************)
DrawnFrames(c1, c2) ==
    <<[type |-> "stroke_start", seq |-> 7, userId |-> 1, strokeId |-> "k1"],
      [type |-> "stroke_start", seq |-> 8, userId |-> 2, strokeId |-> "k2"],
      [type |-> "stroke_add", seq |-> 9, userId |-> 2, strokeId |-> "k2",
       points |-> <<Point(1, 1)>>]>>
    \o (IF c1 THEN <<[type |-> "stroke_end", seq |-> 10, userId |-> 1,
                      strokeId |-> "k1"]>> ELSE <<>>)
    \o (IF c2 THEN <<[type |-> "stroke_end", seq |-> IF c1 THEN 11 ELSE 10,
                      userId |-> 2, strokeId |-> "k2"]>> ELSE <<>>)

DrawnStrokes(c1, c2) ==
    <<[strokeId |-> "k1", oderId |-> 1, points |-> <<>>, complete |-> c1, seq |-> 7],
      [strokeId |-> "k2", oderId |-> 2, points |-> <<Point(1, 1)>>, complete |-> c2,
       seq |-> 8]>>

\* the frames of fs that Room::broadcast handed to user u (all but u's own)
NotFrom(fs, u) ==
    LET F[i \in 0..Len(fs)] ==
          IF i = 0 THEN <<>>
          ELSE IF fs[i].userId # u THEN Append(F[i - 1], fs[i]) ELSE F[i - 1]
    IN  F[Len(fs)]

DrawnInit(c1, c2) ==
    LET js == <<"s1", "s2", "s3">>
        idx(s) == CHOOSE i \in 1..3 : js[i] = s
    IN  /\ rooms = Put(EmptyMap, "R", 1)
        /\ pending = EmptyMap
        /\ heap = <<[JoinedRoom(js) EXCEPT
                       !.strokes = DrawnStrokes(c1, c2),
                       !.nextSeq = 7 + Len(DrawnFrames(c1, c2))]>>
        /\ now = 0
        /\ nextColorIndex = 3
        /\ nextUserId = 4
        /\ sess = [s \in Sessions |->
                     IF s = "s4" THEN NoSession
                     ELSE [NoSession EXCEPT !.conn = "open", !.roomId_ = "R",
                                            !.oderId_ = idx(s), !.joins = 1,
                                            !.result = "none"]]
        /\ loc = [s \in Sessions |-> NoLocals]
        /\ inbox = [s \in Sessions |->
                      IF s = "s4" THEN <<>>
                      ELSE JoinedInbox(js, idx(s))
                             \o NotFrom(DrawnFrames(c1, c2), idx(s))]
        /\ buckets = EmptyMap
        /\ emptiedAt = EmptyMap
        /\ threads = 2
        /\ limiter = NoLimiter
        /\ muting = NoMuting
        /\ call = NoCall

DrawInit == \E c1, c2 \in BOOLEAN : DrawnInit(c1, c2)

DrawNext ==
    \/ \E s \in {"s3"} : StrokeStart(s)
    \/ \E s \in {"s1", "s2"} : StrokeAdd(s)
    \/ \E s \in {"s1", "s2"} : StrokeEnd(s)
    \/ \E s \in {"s1", "s2"} : StrokeMove(s)

SpecDraw == DrawInit /\ [][DrawNext]_vars

\* the handler positions of stroke_add, stroke_end and stroke_move at which
\* the tests on the stroke getStroke found are about to run
CheckSteps == {"add_check", "end_check", "move_check"}

\* the strokes of s's Room that are the stroke getStroke found for s
FoundStroke(s, hp) ==
    {k \in DOMAIN hp[loc[s].room].strokes :
        hp[loc[s].room].strokes[k].seq = loc[s].found.seq}

\* C16: when the stroke found under the strokeId of a stroke_add, stroke_end
\* or stroke_move has another author than the caller, the handler returns
\* InvalidStroke and the stroke keeps its points and its complete flag.
C16_NonAuthorRejected ==
    [][\A s \in Sessions :
         (/\ sess[s].pc \in CheckSteps
          /\ loc[s].found.oderId # loc[s].oderId
          /\ sess'[s].pc # sess[s].pc) =>
            /\ sess'[s].pc = "idle" /\ sess'[s].result = "InvalidStroke"
            /\ \A k \in FoundStroke(s, heap) :
                  heap'[loc[s].room].strokes[k] = heap[loc[s].room].strokes[k]
    ]_vars

\* the complete flag of the stroke getStroke found for s was c
FoundComplete(s, c) == loc[s].found.complete = c

\* C17: a stored stroke's complete flag never goes back from true to false;
\* a stroke_add on a stroke that is complete returns InvalidStroke and
\* appends nothing, and a stroke_move on a stroke that is not complete
\* returns InvalidStroke and moves nothing.
C17_CompleteIsFinal ==
    [][/\ \A i \in DOMAIN heap : \A k \in DOMAIN heap[i].strokes :
            \A j \in DOMAIN heap'[i].strokes :
                (heap'[i].strokes[j].seq = heap[i].strokes[k].seq
                   /\ heap[i].strokes[k].complete) => heap'[i].strokes[j].complete
       /\ \A s \in Sessions :
            (/\ \/ sess[s].pc = "add_check" /\ FoundComplete(s, TRUE)
                \/ sess[s].pc = "move_check" /\ FoundComplete(s, FALSE)
             /\ sess'[s].pc # sess[s].pc) =>
               /\ sess'[s].pc = "idle" /\ sess'[s].result = "InvalidStroke"
               /\ heap'[loc[s].room].strokes = heap[loc[s].room].strokes
    ]_vars

\* C18: no stored stroke holds more than MaxPointsPerStroke points; a
\* stroke_add whose points would take the stroke found above the cap returns
\* StrokeTooLarge and appends nothing, and one by the author of an
\* incomplete stroke that stays within the cap passes the tests.
C18_PointsCapped ==
    /\ [](\A i \in DOMAIN heap : \A k \in DOMAIN heap[i].strokes :
             pointCount(heap[i].strokes[k]) <= MaxPointsPerStroke)
    /\ [][\A s \in Sessions :
            (/\ sess[s].pc = "add_check" /\ sess'[s].pc # "add_check"
             /\ loc[s].found.oderId = loc[s].oderId /\ ~loc[s].found.complete) =>
               \A k \in FoundStroke(s, heap) :
                  IF pointCount(heap[loc[s].room].strokes[k]) + Len(loc[s].points)
                        > MaxPointsPerStroke
                  THEN /\ sess'[s].pc = "idle" /\ sess'[s].result = "StrokeTooLarge"
                       /\ heap'[loc[s].room].strokes = heap[loc[s].room].strokes
                  ELSE sess'[s].pc = "add_points"
      ]_vars

(***************************************************************************)
(* SpecTwice: two connections are in room "R"; the first sends join_room   *)
(* again (joinRoom adds a second participant for the same connection and   *)
(* WsSession::onMessage overwrites oderId_ with the new userId), both draw *)
(* and either may close.  The room has no password, so joinRoom never     *)
(* returns InvalidPassword.                                                *)
(***************************************************************************)
JoinOpen(s) ==
    \/ \E r \in RoomIds, p \in Passwords : JoinGetRoom(s, r, p)
    \/ JoinCheck(s) \/ JoinAssign(s) \/ JoinAdd(s) \/ JoinUsers(s)
    \/ JoinWelcomeSeq(s) \/ JoinWelcomeSend(s) \/ JoinSnapshot(s)
    \/ JoinSnapshotSeq(s) \/ JoinStateSend(s) \/ JoinSeq(s) \/ JoinBroadcast(s)

TwiceInit ==
    /\ rooms = Put(EmptyMap, "R", 1)
    /\ pending = EmptyMap
    /\ heap = <<JoinedRoom(<<"s1", "s2">>)>>
    /\ now = 0
    /\ nextColorIndex = 2
    /\ nextUserId = 3
    /\ sess = [s \in Sessions |->
                 IF s = "s1" THEN [NoSession EXCEPT !.conn = "open", !.roomId_ = "R",
                                                    !.oderId_ = 1, !.result = "Success"]
                 ELSE IF s = "s2" THEN [NoSession EXCEPT !.conn = "open", !.roomId_ = "R",
                                                         !.oderId_ = 2, !.joins = 1,
                                                         !.result = "Success"]
                 ELSE NoSession]
    /\ loc = [s \in Sessions |-> NoLocals]
    /\ inbox = [s \in Sessions |->
                  IF s = "s1" THEN JoinedInbox(<<"s1", "s2">>, 1)
                  ELSE IF s = "s2" THEN JoinedInbox(<<"s1", "s2">>, 2) ELSE <<>>]
    /\ buckets = EmptyMap
    /\ emptiedAt = EmptyMap
    /\ threads = 2
    /\ limiter = NoLimiter
    /\ muting = NoMuting
    /\ call = NoCall

TwiceNext ==
    \/ \E s \in {"s1"} : JoinOpen(s)
    \/ \E s \in Sessions : StrokeStart(s)
    \/ \E s \in Sessions : Leave(s)

SpecTwice == TwiceInit /\ [][TwiceNext]_vars

(***************************************************************************)
(* Who is handed a broadcast.                                              *)
(***************************************************************************)
\* the handler of session s hands out the broadcast of its board operation
BoardBroadcasts(s) ==
    /\ sess[s].pc \in {"cursor_bcast", "start_bcast", "add_bcast", "end_bcast",
                       "move_bcast"}
    /\ sess'[s].pc = "idle"

\* the handler of session s hands out the user_left of its participant
LeaveBroadcasts(s) == sess[s].pc = "leave_bcast" /\ sess'[s].pc = "leave_empty"

\* the number of frames the step hands to session t
Handed(t) == Len(inbox'[t]) - Len(inbox[t])

\* C19: the connection that sent a cursor_move, stroke_start, stroke_add,
\* stroke_end or stroke_move is not handed the broadcast of that operation
\* and every other live connection of a participant of the room is handed it
\* exactly once; a user_left is handed to every live connection of a
\* remaining participant
C19_OriginatorNeverHanded ==
    [][\A s \in Sessions :
         /\ BoardBroadcasts(s) =>
              /\ Handed(s) = 0
              /\ \A t \in broadcastTo(heap[loc[s].room], loc[s].oderId, Live) \ {s} :
                    Handed(t) = 1
         /\ LeaveBroadcasts(s) =>
              \A t \in broadcastTo(heap[loc[s].room], 0, Live) : Handed(t) >= 1]_vars

\* the positions at which a handler calls Room::broadcast
BroadcastSteps == {"join_bcast", "leave_bcast", "start_bcast", "cursor_bcast",
                   "add_bcast", "end_bcast", "move_bcast"}

\* the excludeUserId the handler of session s passes to Room::broadcast
Excluded(s) == IF sess[s].pc = "leave_bcast" THEN 0 ELSE loc[s].oderId

\* the participants of the room of s's handler, other than the excluded one,
\* whose connection is session t
Entries(s, t) ==
    {u \in DOMAIN heap[loc[s].room].participants :
        u # Excluded(s) /\ heap[loc[s].room].participants[u].session = t}

Program == <<rooms, pending, heap, nextColorIndex, nextUserId, sess, loc, inbox,
             buckets, emptiedAt, threads>>

\* the call op(userId) made at the present time on the limiter L returned r;
\* fresh: L had no bucket for userId
Logged(lg, L, op, userId, r) ==
    Append(lg, [op |-> op, userId |-> userId, ret |-> r.ret, at |-> now,
                fresh |-> userId \notin DOMAIN L.buckets_])

LimiterCall(op, userId, r) ==
    /\ limiter' = [obj |-> r.obj, log |-> Logged(limiter.log, limiter.obj, op, userId, r)]
    /\ UNCHANGED <<Program, now, muting, call>>

LimiterTryConsume(userId) ==
    /\ Len(limiter.log) < MaxCalls
    /\ LimiterCall("tryConsume", userId, tryConsumeOne(limiter.obj, userId, now))

LimiterTryConsumeCount(userId, count) ==
    /\ Len(limiter.log) < MaxCalls
    /\ LimiterCall("tryConsumeCount", userId, tryConsumeCount(limiter.obj, userId, count, now))

LimiterCanConsume(userId) ==
    /\ Len(limiter.log) < MaxCalls
    /\ LimiterCall("canConsume", userId, canConsume(limiter.obj, userId, now))

LimiterGetTokens(userId) ==
    /\ Len(limiter.log) < MaxCalls
    /\ LimiterCall("getTokens", userId, getTokens(limiter.obj, userId, now))

LimiterGetWaitTimeMs(userId) ==
    /\ Len(limiter.log) < MaxCalls
    /\ LimiterCall("getWaitTimeMs", userId, getWaitTimeMs(limiter.obj, userId, now))

LimiterReset(userId) ==
    /\ Len(limiter.log) < MaxCalls
    /\ LimiterCall("reset", userId, reset(limiter.obj, userId, now))

LimiterRemove(userId) ==
    /\ Len(limiter.log) < MaxCalls
    /\ LimiterCall("remove", userId, removeBucket(limiter.obj, userId))

LimiterCleanup(maxAgeSeconds) ==
    /\ Len(limiter.log) < MaxCalls
    /\ LimiterCall("cleanup", 0, cleanup(limiter.obj, maxAgeSeconds, now))

LimiterInit ==
    /\ Started({}, 1)
    /\ \E r \in Rates, c \in Capacities : limiter = Called(RateLimiter(r, c))
    /\ muting = NoMuting
    /\ call = NoCall

LimiterNext ==
    \/ Tick
    \/ \E u \in Keys : LimiterTryConsume(u)
    \/ \E u \in Keys, n \in Counts : LimiterTryConsumeCount(u, n)
    \/ \E u \in Keys : LimiterCanConsume(u)
    \/ \E u \in Keys : LimiterGetTokens(u)
    \/ \E u \in Keys : LimiterGetWaitTimeMs(u)
    \/ \E u \in Keys : LimiterReset(u)
    \/ \E u \in Keys : LimiterRemove(u)
    \/ \E a \in MaxAges : LimiterCleanup(a)

SpecLimiter == LimiterInit /\ [][LimiterNext]_vars

\* C23: the tokens of every bucket of a RateLimiter are at least 0 and at
\* most the capacity after every call
C23_TokensWithinCapacity ==
    \A u \in DOMAIN limiter.obj.buckets_ :
        /\ 0 <= limiter.obj.buckets_[u].tokens
        /\ limiter.obj.buckets_[u].tokens <= limiter.obj.maxTokens_


\* the calls i..j of the log lg that are about userId are tryConsume(userId)
\* calls made at the time of call i
BurstOf(lg, userId, i, j) ==
    \A k \in i..j : lg[k].userId = userId => lg[k].op = "tryConsume" /\ lg[k].at = lg[i].at

\* the number of calls about userId among the calls i..j of the log lg
CallsOf(lg, userId, i, j) == Cardinality({k \in i..j : lg[k].userId = userId})

\* C24: a key seen for the first time starts with tokens = capacity; with no
\* time elapsing the first floor(capacity) tryConsume(key) calls return true
\* and every later one returns false; a tryConsume(key) that returns false
\* leaves the bucket as the refill left it
C24_BurstIsFloorOfCapacity ==
    [][/\ \A i, j \in DOMAIN limiter'.log :
             LET lg == limiter'.log
                 u == lg[i].userId
             IN  (/\ i <= j /\ lg[i].op = "tryConsume" /\ lg[i].fresh
                  /\ lg[j].userId = u /\ BurstOf(lg, u, i, j))
                 => (lg[j].ret <=> CallsOf(lg, u, i, j) <= limiter.obj.maxTokens_ \div TokenUnit)
       /\ \A u \in Keys :
             LET e == limiter'.log[Len(limiter'.log)]
                 was == refilled(limiter.obj, u, now)
             IN  (/\ Len(limiter'.log) = Len(limiter.log) + 1
                  /\ e.userId = u /\ e.op \in {"tryConsume", "canConsume", "getWaitTimeMs"})
                 => /\ e.fresh => was.tokens = limiter.obj.maxTokens_
                    /\ (e.op = "tryConsume" /\ ~e.ret) => limiter'.obj.buckets_[u] = was
                    /\ (e.op = "tryConsume" /\ e.ret) =>
                          limiter'.obj.buckets_[u].tokens = was.tokens - TokenUnit]_vars

\* a new key was granted floor(capacity) tokens in a row and then refused
C24_Witness ==
    LET lg == limiter.log
    IN  /\ Len(lg) >= 2
        /\ lg[1].op = "tryConsume" /\ lg[1].fresh
        /\ BurstOf(lg, lg[1].userId, 1, Len(lg))
        /\ \A k \in DOMAIN lg : lg[k].userId = lg[1].userId
        /\ lg[Len(lg) - 1].ret /\ ~lg[Len(lg)].ret


(***************************************************************************)
(* SpecKeys: either a server on one thread, where a client joins, moves    *)
(* its cursor and closes its connection, then connects again and does the  *)
(* same (PresenceService's limiter is keyed by the userId joinRoom         *)
(* assigned); or no server at all and a RateLimiter of one token per tick  *)
(* and a capacity of two tokens called directly on two keys.               *)
(***************************************************************************)
\* no connection was ever accepted
NoServer == \A s \in Sessions : sess[s].conn = "none"

\* the listener accepts connection t of the client whose connection s is
\* closed
Reconnect(s, t) ==
    /\ sess[s].conn = "gone" /\ sess[t].conn = "none"
    /\ sess' = [sess EXCEPT ![t].conn = "open"]
    /\ UNCHANGED <<rooms, pending, heap, now, nextColorIndex, nextUserId, loc, inbox,
                   buckets, emptiedAt, threads, limiter, muting, call>>

KeysInit ==
    /\ \E Conn \in {{}, {"s1"}} : Started(Conn, 1)
    /\ limiter = Called(RateLimiter(TokenUnit, 2 * TokenUnit))
    /\ muting = NoMuting
    /\ call = NoCall

KeysNext ==
    \/ Tick
    \/ \E s \in Sessions : Join(s)
    \/ \E s \in Sessions : CursorMove(s)
    \/ \E s \in Sessions : Leave(s)
    \/ Reconnect("s1", "s2")
    \/ \E u \in Keys : NoServer /\ LimiterTryConsume(u)
    \/ \E u \in Keys : NoServer /\ LimiterCanConsume(u)
    \/ \E u \in Keys : NoServer /\ LimiterReset(u)
    \/ \E u \in Keys : NoServer /\ LimiterRemove(u)

SpecKeys == KeysInit /\ [][KeysNext]_vars

\* the bucket of key k in the map bs, with -1 tokens when there is none
BucketOf(bs, k) == IF k \in DOMAIN bs THEN bs[k] ELSE TokenBucket(0 - 1, 0)

\* the userIds in use: of a participant, of a connection or of a bucket
UsedIds ==
    UNION {DOMAIN heap[i].participants : i \in DOMAIN heap}
    \cup {sess[s].oderId_ : s \in Sessions} \cup DOMAIN buckets

\* C25: a call on one key of a limiter leaves the bucket of every other key
\* as it is, in a RateLimiter called directly and in PresenceService's; the
\* userId joinRoom assigns is not in use, and the bucket its first
\* cursor_move creates holds the full capacity less the token just consumed
C25_BucketsIsolatedPerUser ==
    [][/\ \A k \in Keys :
             LET e == limiter'.log[Len(limiter'.log)]
             IN  (Len(limiter'.log) = Len(limiter.log) + 1 /\ e.userId # k)
                 => BucketOf(limiter'.obj.buckets_, k) = BucketOf(limiter.obj.buckets_, k)
       /\ \A k \in DOMAIN buckets \cup DOMAIN buckets' :
             BucketOf(buckets', k) # BucketOf(buckets, k)
             => \E s \in Sessions : sess'[s].pc # sess[s].pc /\ loc[s].oderId = k
       /\ \A s \in Sessions :
             /\ (sess[s].pc = "join_id" /\ sess'[s].pc # "join_id")
                => loc'[s].oderId \notin UsedIds
             /\ (sess[s].pc = "cursor_limit" /\ sess'[s].pc # "cursor_limit"
                 /\ loc[s].oderId \notin DOMAIN buckets)
                => buckets'[loc[s].oderId].tokens = RateLimitBurstSize - 1]_vars

\* the client's second connection joined after its first one closed, got
\* the second userId and is about to consume its first token
C25_Witness ==
    \E s, t \in Sessions :
        /\ sess[s].pc = "cursor_limit" /\ loc[s].oderId \notin DOMAIN buckets
        /\ sess[t].conn = "gone" /\ loc[s].oderId = 2

(***************************************************************************)
(* SpecMuting: a MutingRateLimiter of any policy of Rates, Capacities,     *)
(* MuteDurations (in ticks) and Thresholds is called on two keys while the *)
(* clock advances; every call is logged with what it returned and with     *)
(* whether it found a mutedUntil_ entry of its key.                        *)
(***************************************************************************)
MutingCall(op, userId, r) ==
    /\ muting' = [obj |-> r.obj,
                  log |-> Append(muting.log,
                             [op |-> op, userId |-> userId, ret |-> r.ret, at |-> now,
                              muted |-> userId \in DOMAIN muting.obj.mutedUntil_])]
    /\ UNCHANGED <<Program, now, limiter, call>>

MutingTryConsume(userId) ==
    /\ Len(muting.log) < MaxCalls
    /\ MutingCall("tryConsume", userId, mutingTryConsume(muting.obj, userId, now))

MutingIsMuted(userId) ==
    /\ Len(muting.log) < MaxCalls
    /\ MutingCall("isMuted", userId, isMuted(muting.obj, userId, now))

MutingGetMuteTimeRemainingMs(userId) ==
    /\ Len(muting.log) < MaxCalls
    /\ MutingCall("getMuteTimeRemainingMs", userId,
                  getMuteTimeRemainingMs(muting.obj, userId, now))

MutingRemove(userId) ==
    /\ Len(muting.log) < MaxCalls
    /\ MutingCall("remove", userId, mutingRemove(muting.obj, userId))

MutingInit ==
    /\ Started({}, 1)
    /\ limiter = NoLimiter
    /\ \E r \in Rates, c \in Capacities, d \in MuteDurations, v \in Thresholds :
          muting = Called(MutingRateLimiter(r, c, d, v))
    /\ call = NoCall

MutingNext ==
    \/ Tick
    \/ \E u \in Keys : MutingTryConsume(u)
    \/ \E u \in Keys : MutingIsMuted(u)
    \/ \E u \in Keys : MutingGetMuteTimeRemainingMs(u)
    \/ \E u \in Keys : MutingRemove(u)

SpecMuting == MutingInit /\ [][MutingNext]_vars

\* the key k has a mute that has not expired at the present time
Muted(M, k) == k \in DOMAIN M.mutedUntil_ /\ now < M.mutedUntil_[k]

\* the violation counter of the key k, 0 when there is none
ViolationsOf(M, k) == IF k \in DOMAIN M.violations_ THEN M.violations_[k] ELSE 0

CallStep(c) ==
    /\ call' = c
    /\ UNCHANGED <<Program, now, limiter, muting>>

\* room.hpp lines 264-268: lock_guard, then the loop over participants_
RoomBroadcast(excludeUserId, sendFunc) ==
    /\ call.pc = "idle" /\ ~call.mutex_ /\ call.n < MaxCalls
    /\ CallStep([NoCall EXCEPT !.op = "broadcast", !.pc = "loop", !.mutex_ = TRUE,
                 !.todo = DOMAIN heap[1].participants \ {excludeUserId},
                 !.sendFunc = sendFunc, !.n = call.n + 1])

\* room.hpp lines 279-282: lock_guard, then participants_.find(oderId)
RoomSendTo(oderId, sendFunc) ==
    /\ call.pc = "idle" /\ ~call.mutex_ /\ call.n < MaxCalls
    /\ CallStep([NoCall EXCEPT !.op = "sendTo", !.pc = "loop", !.mutex_ = TRUE,
                 !.todo = DOMAIN heap[1].participants \cap {oderId},
                 !.sendFunc = sendFunc, !.n = call.n + 1])

\* room.hpp lines 268-271, 283-284: the next participant; sendFunc is
\* called when its weak session pointer can be locked
RoomVisit ==
    /\ call.pc = "loop" /\ call.todo # {}
    /\ LET u == CHOOSE v \in call.todo : \A w \in call.todo : v <= w
       IN  IF heap[1].participants[u].session \in Live
           THEN CallStep([call EXCEPT !.pc = "sendFunc", !.cur = u])
           ELSE CallStep([call EXCEPT !.todo = @ \ {u}])

\* room.hpp lines 273, 287: the function returns and the lock_guard
\* releases mutex_
RoomReturn ==
    /\ call.pc = "loop" /\ call.todo = {}
    /\ CallStep([call EXCEPT !.op = "none", !.pc = "idle", !.mutex_ = FALSE])

\* sendFunc(session) of the services: sendFunc(session, message)
SendFuncSend ==
    /\ call.pc = "sendFunc" /\ call.sendFunc = "send"
    /\ inbox' = Hand({heap[1].participants[call.cur].session},
                     [type |-> call.op, seq |-> call.n])
    /\ call' = [call EXCEPT !.pc = "loop", !.todo = @ \ {call.cur}]
    /\ UNCHANGED <<rooms, pending, heap, now, nextColorIndex, nextUserId, sess, loc,
                   buckets, emptiedAt, threads, limiter, muting>>

\* a sendFunc that calls Room::getParticipantCount (room.hpp lines 96-99) on
\* the same Room: its lock_guard locks mutex_, a std::mutex; when the
\* calling thread owns it the behaviour is undefined: the thread blocks for
\* ever, or lock() throws std::system_error, which leaves broadcast and
\* releases its lock_guard
SendFuncReenter ==
    /\ call.pc = "sendFunc" /\ call.sendFunc = "getParticipantCount"
    /\ IF call.mutex_
       THEN \E outcome \in {"blocked", "system_error"} :
               IF outcome = "blocked"
               THEN CallStep([call EXCEPT !.pc = "blocked"])
               ELSE CallStep([call EXCEPT !.op = "none", !.pc = "idle", !.mutex_ = FALSE,
                                          !.todo = {}])
       ELSE CallStep([call EXCEPT !.pc = "loop", !.todo = @ \ {call.cur}])

SenderInit == InitJoined(<<"s1", "s2", "s3">>, {}, 1)

SenderNext ==
    \/ \E u \in 0..3, f \in SendFuncs : RoomBroadcast(u, f)
    \/ \E u \in 1..4, f \in SendFuncs : RoomSendTo(u, f)
    \/ RoomVisit
    \/ RoomReturn
    \/ SendFuncSend
    \/ SendFuncReenter

SpecSender == SenderInit /\ [][SenderNext]_vars

\* C21: sendFunc never runs while broadcast or sendTo holds mutex_, and a
\* sendFunc that calls back into the Room never blocks on mutex_
C21_SendFuncOutsideLock ==
    /\ call.pc = "sendFunc" => ~call.mutex_
    /\ call.pc # "blocked"

\* every accepted connection has closed and its onDisconnect has returned
AllClosed ==
    /\ \E s \in Sessions : sess[s].conn = "gone"
    /\ \A s \in Sessions : sess[s].conn # "open" /\ sess[s].pc = "idle"

\* C22: once every connection has closed, no room holds a participant
C22_ClosedLeavesNoParticipant ==
    AllClosed => \A id \in DOMAIN rooms : DOMAIN heap[rooms[id]].participants = {}

(***************************************************************************)
(* SpecCursor: two users are in room "R" and the first has moved its       *)
(* cursor to (1, 1) k times at time 0 (k up to RateLimitBurstSize, each    *)
(* move accepted and broadcast to the second); on two threads both send    *)
(* cursor_move while the clock advances and the second may disconnect.     *)
(***************************************************************************)
MovedInit ==
    LET js == <<"s1", "s2">>
        moved(k) == [j \in 1..k |-> [type |-> "cursor_move", seq |-> 2 * Len(js) + j,
                                     userId |-> 1, x |-> 1, y |-> 1]]
    IN  \E k \in 0..RateLimitBurstSize :
           /\ rooms = Put(EmptyMap, "R", 1)
           /\ pending = EmptyMap
           /\ heap = <<[JoinedRoom(js) EXCEPT
                          !.nextSeq = @ + k,
                          !.cursors[1] = IF k > 0 THEN CursorState(1, 1, 1) ELSE @]>>
           /\ now = 0
           /\ nextColorIndex = Len(js) % PaletteSize
           /\ nextUserId = Len(js) + 1
           /\ sess = [s \in Sessions |->
                        IF s = "s1" \/ s = "s2"
                        THEN [NoSession EXCEPT !.conn = "open", !.roomId_ = "R",
                                               !.oderId_ = IF s = "s1" THEN 1 ELSE 2,
                                               !.joins = 1, !.result = "Success"]
                        ELSE NoSession]
           /\ loc = [s \in Sessions |-> NoLocals]
           /\ inbox = [s \in Sessions |->
                         IF s = "s1" THEN JoinedInbox(js, 1)
                         ELSE IF s = "s2" THEN JoinedInbox(js, 2) \o moved(k)
                         ELSE <<>>]
           /\ buckets = IF k = 0 THEN EmptyMap
                        ELSE Put(EmptyMap, 1, TokenBucket(RateLimitBurstSize - k, 0))
           /\ emptiedAt = EmptyMap
           /\ threads = 2
           /\ limiter = NoLimiter
           /\ muting = NoMuting
           /\ call = NoCall

CursorNext ==
    \/ Tick
    \/ \E s \in Sessions : CursorMove(s)
    \/ LeaveOccupied("s2")

SpecCursor == MovedInit /\ [][CursorNext]_vars

\* the sessions sendFunc is called for when user u broadcasts in room r, each
\* with the number of its participant entries other than u
Recipients(r, u, t) ==
    Cardinality({v \in DOMAIN heap[r].participants :
                   v # u /\ heap[r].participants[v].session = t /\ t \in Live})

\* C27: a cursor_move the rate limiter refuses ends the handler with
\* RateLimited and changes no Room and no inbox; an accepted one sets the
\* participant's cursor and lastActivity, draws the Room's next sequence
\* number, above every one drawn before, and hands one cursor_move frame
\* with it to every other participant's session and none to the sender's
C27_CursorMoveLimited ==
    [][\A s \in Sessions :
          LET r == loc[s].room
              u == loc[s].oderId
              left(pc) == sess[s].pc = pc /\ sess'[s].pc # pc
          IN  /\ (left("cursor_limit") /\ ~tryConsumeOk(buckets, u, now))
                 => /\ sess'[s].pc = "idle" /\ sess'[s].result = "RateLimited"
                    /\ heap' = heap /\ inbox' = inbox
              /\ (left("cursor_limit") /\ tryConsumeOk(buckets, u, now))
                 => sess'[s].pc = "cursor_update"
              /\ (left("cursor_update") /\ getParticipant(heap[r], u))
                 => /\ heap'[r].cursors[u] = CursorState(u, loc[s].x, loc[s].y)
                    /\ heap'[r].participants[u].lastActivity = now
                    /\ inbox' = inbox
              /\ left("cursor_seq")
                 => /\ loc'[s].seq = heap[r].nextSeq
                    /\ heap'[r].nextSeq = heap[r].nextSeq + 1
                    /\ \A t \in Sessions : \A i \in DOMAIN inbox[t] :
                          inbox[t][i].seq < loc'[s].seq
                    /\ \A t \in Sessions \ {s} : loc[t].seq < loc'[s].seq
              /\ left("cursor_bcast")
                 => /\ sess'[s].pc = "idle" /\ sess'[s].result = "none"
                    /\ \A t \in Sessions :
                          inbox'[t] = inbox[t] \o
                             [i \in 1..Recipients(r, u, t) |->
                                [type |-> "cursor_move", seq |-> loc[s].seq,
                                 userId |-> u, x |-> loc[s].x, y |-> loc[s].y]]]_vars

\* the first user's move was refused, and it holds the frame of the second
\* user's accepted move
C27_Witness ==
    /\ sess["s1"].pc = "idle" /\ sess["s1"].result = "RateLimited"
    /\ \E i \in DOMAIN inbox["s1"] :
          inbox["s1"][i].type = "cursor_move" /\ inbox["s1"][i].userId = 2

(***************************************************************************)
(* SpecSnapshot: Room::addStroke and Room::getStrokesSnapshot(limit) are   *)
(* called on the Room of two users, with any stroke of StrokeIds by either *)
(* user and any limit up to one more than the Room can hold.               *)
(***************************************************************************)
Limits == 0..(MaxStrokesPerRoom + 1)

\* room.hpp lines 187-191: push_back, pruneStrokesIfNeeded
RoomAddStroke(strokeId, oderId) ==
    /\ call.n < MaxCalls
    /\ heap' = [heap EXCEPT ![1] = addStroke(@, Stroke(strokeId, oderId))]
    /\ call' = [call EXCEPT !.op = "addStroke", !.n = @ + 1]
    /\ UNCHANGED <<rooms, pending, now, nextColorIndex, nextUserId, sess, loc, inbox,
                   buckets, emptiedAt, threads, limiter, muting>>

\* room.hpp lines 217-226
RoomGetStrokesSnapshot(limit) ==
    /\ call.n < MaxCalls
    /\ CallStep([call EXCEPT !.op = "getStrokesSnapshot", !.limit = limit,
                             !.ret = getStrokesSnapshot(heap[1], limit), !.n = @ + 1])

SnapshotInit == InitJoined(<<"s1", "s2">>, {}, 1)

SnapshotNext ==
    \/ \E k \in StrokeIds, u \in 1..2 : RoomAddStroke(k, u)
    \/ \E limit \in Limits : RoomGetStrokesSnapshot(limit)

SpecSnapshot == SnapshotInit /\ [][SnapshotNext]_vars

\* C28: getStrokesSnapshot(limit) returns strokes_ as it is when it holds at
\* most limit strokes, and otherwise its last limit strokes in their order
C28_SnapshotIsNewestInOrder ==
    [][(call'.op = "getStrokesSnapshot" /\ call'.n = call.n + 1)
       => LET S == heap[1].strokes
              R == call'.ret
              limit == call'.limit
          IN  IF Len(S) <= limit THEN R = S
              ELSE /\ Len(R) = limit
                   /\ \A i \in 1..limit : R[i] = S[Len(S) - limit + i]]_vars

\* a snapshot of one stroke was taken of a Room holding two different ones
C28_Witness ==
    /\ call.op = "getStrokesSnapshot" /\ call.limit = 1
    /\ Len(heap[1].strokes) = 2 /\ heap[1].strokes[1] # heap[1].strokes[2]
    /\ call.ret = <<heap[1].strokes[2]>>

(***************************************************************************)
(* SpecColor: on one thread a client joins and stays, while another joins, *)
(* closes its connection and connects again, until the registry has handed *)
(* out one userId more than colorPalette_ has colors.                      *)
(***************************************************************************)
\* the listener accepts a new connection (a new WsSession, here in the place
\* t of no connection or of a closed one, which no participant refers to)
Accept(t) ==
    /\ sess[t].conn # "open" /\ nextUserId <= PaletteSize + 1
    /\ \A i \in DOMAIN heap : \A u \in DOMAIN heap[i].participants :
          heap[i].participants[u].session # t
    /\ sess' = [sess EXCEPT ![t] = [NoSession EXCEPT !.conn = "open"]]
    /\ UNCHANGED <<rooms, pending, heap, now, nextColorIndex, nextUserId, loc, inbox,
                   buckets, emptiedAt, threads, limiter, muting, call>>

ColorInit == InitWith({"s1", "s2"}, 1)

ColorNext ==
    \/ \E s \in Sessions : Join(s)
    \/ Leave("s2")
    \/ Accept("s2")

SpecColor == ColorInit /\ [][ColorNext]_vars

\* C29: the participants of a room have pairwise different colors
C29_ColorsPairwiseDifferent ==
    \A i \in DOMAIN heap : \A u, v \in DOMAIN heap[i].participants :
        u # v => heap[i].participants[u].color # heap[i].participants[v].color

(***************************************************************************)
(* SpecDrop: three users are in room "R", which holds strokes; the first   *)
(* two edit strokes and the third starts one or moves its cursor, while a  *)
(* fourth connection is accepted and, without joining, sends cursor_move   *)
(* and stroke frames.                                                      *)
(***************************************************************************)
DropNext ==
    \/ Accept("s4")
    \/ \E s \in {"s3", "s4"} : StrokeStart(s)
    \/ \E s \in {"s3", "s4"} : CursorMove(s)
    \/ \E s \in {"s1", "s4"} : StrokeAdd(s)
    \/ \E s \in {"s2", "s4"} : StrokeEnd(s)
    \/ \E s \in {"s2", "s4"} : StrokeMove(s)

SpecDrop == DrawInit /\ [][DropNext]_vars

\* C30: a cursor_move or stroke frame handled for a connection with no
\* recorded room or user ends at once and changes no Room (participants,
\* cursors, strokes, sequence counter), no registry entry, no inbox and no
\* rate-limiter bucket
C30_FrameWithoutRoomDropped ==
    [][\A s \in Sessions :
          (~InRoom(s) /\ sess'[s].edits = sess[s].edits + 1)
          => /\ sess'[s].pc = "idle" /\ sess'[s].result = "none"
             /\ sess'[s].roomId_ = sess[s].roomId_ /\ sess'[s].oderId_ = sess[s].oderId_
             /\ heap' = heap /\ rooms' = rooms /\ pending' = pending
             /\ inbox' = inbox /\ buckets' = buckets /\ loc' = loc]_vars

\* the connection that never joined had a frame dropped while the Room
\* holds strokes and a user of it is inside a handler
C30_Witness ==
    /\ ~InRoom("s4") /\ sess["s4"].conn = "open" /\ sess["s4"].edits = 1
    /\ heap[1].strokes # <<>>
    /\ \E s \in Sessions : sess[s].pc # "idle"

(***************************************************************************)
(* MessageHandler::handle for the frames no handler above takes: text that *)
(* is not JSON, JSON that is no object or has no string "type", a type the *)
(* server does not know or only sends itself, and ping.                    *)
(***************************************************************************)
RawMessages == {"{", "42", "{}", "{type:7}", "{type:bogus}", "{type:welcome}",
                "{type:ping}"}

\* MessageCodec::parse (message_codec.hpp lines 40-46): ok is FALSE when
\* json::parse throws, and MessageParseError is thrown
parse(rawMessage) ==
    CASE rawMessage = "{" -> [ok |-> FALSE, object |-> FALSE, type |-> ""]
      [] rawMessage = "42" -> [ok |-> TRUE, object |-> FALSE, type |-> ""]
      [] rawMessage = "{}" -> [ok |-> TRUE, object |-> TRUE, type |-> ""]
      [] rawMessage = "{type:7}" -> [ok |-> TRUE, object |-> TRUE, type |-> ""]
      [] rawMessage = "{type:bogus}" -> [ok |-> TRUE, object |-> TRUE, type |-> "bogus"]
      [] rawMessage = "{type:welcome}" -> [ok |-> TRUE, object |-> TRUE, type |-> "welcome"]
      [] OTHER -> [ok |-> TRUE, object |-> TRUE, type |-> "ping"]

\* message_types.hpp lines 129-148
stringToMessageType(typeStr) ==
    IF typeStr \in {"join_room", "welcome", "user_joined", "user_left", "cursor_move",
                    "stroke_start", "stroke_add", "stroke_end", "stroke_move",
                    "room_state", "ping", "pong", "error"}
    THEN typeStr ELSE "Unknown"

\* MessageCodec::getType (message_codec.hpp lines 51-56); type is "" when
\* the value has no "type" that is a string
getType(msg) ==
    IF ~msg.object \/ msg.type = "" THEN "Unknown" ELSE stringToMessageType(msg.type)

\* a handler that answers an unknown type with the INTERNAL_ERROR code (the
\* fault C31 excludes)
Handle_internal(s, rawMessage) ==
    /\ Idle(s) /\ CanRun /\ sess[s].edits < MaxEdits
    /\ LET msg == parse(rawMessage)
           code == IF ~msg.ok THEN "MalformedMessage"
                   ELSE IF getType(msg) = "ping" THEN "none" ELSE "InternalError"
       IN  /\ inbox' = Hand({s}, IF code = "none" THEN [type |-> "pong", seq |-> 0]
                                 ELSE createError(code, 0))
           /\ sess' = [sess EXCEPT ![s].edits = @ + 1,
                                   ![s].result = IF code = "InternalError"
                                                 THEN "InvalidMessageType" ELSE code]
    /\ UNCHANGED <<rooms, pending, heap, now, nextColorIndex, nextUserId, buckets, loc,
                   emptiedAt, threads, limiter, muting, call>>

\* message_handler.hpp lines 41-47, 80-89, 235-251: sendError with
\* MalformedMessage or InvalidMessageType, or the pong of a ping (whose seq
\* is 0 when the ping carries none)
Handle(s, rawMessage) ==
    /\ Idle(s) /\ CanRun /\ sess[s].edits < MaxEdits
    /\ LET msg == parse(rawMessage)
           code == IF ~msg.ok THEN "MalformedMessage"
                   ELSE IF getType(msg) = "ping" THEN "none" ELSE "InvalidMessageType"
       IN  /\ inbox' = Hand({s}, IF code = "none" THEN [type |-> "pong", seq |-> 0]
                                 ELSE createError(code, 0))
           /\ sess' = [sess EXCEPT ![s].edits = @ + 1, ![s].result = code]
    /\ UNCHANGED <<rooms, pending, heap, now, nextColorIndex, nextUserId, buckets, loc,
                   emptiedAt, threads, limiter, muting, call>>

(***************************************************************************)
(* SpecFrames: two users are in room "R" and a third connection has not    *)
(* joined; on two threads each sends one frame, a cursor_move or one of    *)
(* RawMessages, and the second user may disconnect.                        *)
(***************************************************************************)
FramesInit == InitJoined(<<"s1", "s2">>, {"s3"}, 2)

FramesNext ==
    \/ \E s \in Sessions, rawMessage \in RawMessages : Handle(s, rawMessage)
    \/ \E s \in Sessions : CursorMove(s)
    \/ LeaveOccupied("s2")

SpecFrames == FramesInit /\ [][FramesNext]_vars

\* C31: a frame that is not JSON, or whose type is unknown, hands exactly
\* one error frame with seq 0 and the code MALFORMED_MESSAGE, respectively
\* INVALID_MESSAGE_TYPE, to the sender and nothing to any other connection,
\* changes no Room, registry entry or bucket, and leaves the connection
\* open with its recorded room and user
C31_BadFrameAnsweredOnce ==
    [][\A s \in Sessions :
          \A code \in {"MalformedMessage", "InvalidMessageType"} :
             (sess'[s].result = code /\ sess'[s].edits = sess[s].edits + 1)
             => /\ inbox'[s] = Append(inbox[s],
                                  [type |-> "error", seq |-> 0,
                                   code |-> IF code = "MalformedMessage"
                                            THEN "MALFORMED_MESSAGE"
                                            ELSE "INVALID_MESSAGE_TYPE"])
                /\ \A t \in Sessions \ {s} : inbox'[t] = inbox[t]
                /\ heap' = heap /\ rooms' = rooms /\ pending' = pending
                /\ buckets' = buckets
                /\ sess'[s].conn = "open"
                /\ sess'[s].roomId_ = sess[s].roomId_
                /\ sess'[s].oderId_ = sess[s].oderId_]_vars

\* a user of the room was answered INVALID_MESSAGE_TYPE and the connection
\* that never joined MALFORMED_MESSAGE, each holding the error frame last
C31_Witness ==
    /\ sess["s1"].result = "InvalidMessageType" /\ InRoom("s1")
    /\ inbox["s1"][Len(inbox["s1"])].type = "error"
    /\ sess["s3"].result = "MalformedMessage"
    /\ inbox["s3"] = <<createError("MalformedMessage", 0)>>
    /\ 1 \in DOMAIN heap[1].participants

(***************************************************************************)
(* Failing stroke operations: the drawn board of SpecDraw, with the room   *)
(* deleted through RoomService::deleteRoom at any moment, so that a stroke *)
(* frame also meets a registry without its room.                           *)
(***************************************************************************)
FailNext ==
    \/ \E s \in {"s3"} : StrokeStart(s)
    \/ \E s \in {"s1", "s2"} : StrokeAdd(s)
    \/ \E s \in {"s1", "s2"} : StrokeEnd(s)
    \/ \E s \in {"s1", "s2"} : StrokeMove(s)
    \/ DeleteRoom("R")

SpecFail == DrawInit /\ [][FailNext]_vars

\* the error codes a stroke operation returns
StrokeErrors == {"InvalidStroke", "StrokeTooLarge", "RoomNotFound"}

\* the handler positions a stroke operation can fail from: the arrival of the
\* frame (getRoom), the lookup of the stroke and the tests on it
FailSteps == {"idle", "add_find", "end_find", "move_find"} \cup CheckSteps

\* C32: a stroke operation that ends with InvalidStroke, StrokeTooLarge or
\* RoomNotFound has changed no stroke of any Room, has drawn no sequence
\* number, has broadcast nothing and hands no error frame to the sender
C32_FailedStrokeChangesNothing ==
    [][\A s \in Sessions :
          ( /\ sess'[s].pc = "idle" /\ sess'[s].result \in StrokeErrors
            /\ (sess[s].pc # "idle" \/ sess'[s].edits = sess[s].edits + 1) )
          => /\ sess[s].pc \in FailSteps
             /\ loc[s].seq = 0
             /\ inbox' = inbox
             /\ \A i \in DOMAIN heap :
                   \/ heap'[i] = heap[i]
                   \/ heap'[i] = Destroyed /\ i \notin {rooms'[r] : r \in DOMAIN rooms'}]_vars

\* the three error codes were returned, one to each handler, and the board
\* holds what it held before
C32_Witness ==
    /\ \E a, b, c \in Sessions :
          /\ sess[a].result = "StrokeTooLarge"
          /\ sess[b].result = "InvalidStroke"
          /\ sess[c].result = "RoomNotFound"
    /\ AllIdle

\* the handler positions at which stroke->addPoints, stroke->finish and
\* stroke->translate are about to run
MutateSteps == {"add_points", "end_finish", "move_translate"}

\* the handler positions at which a handler holds a Stroke* into strokes_
PointerSteps == CheckSteps \cup MutateSteps

\* C33: a stored Stroke is read and changed under the Room's mutex only: when
\* a handler appends points to, finishes or translates the stroke it looked
\* up, no addStroke has touched strokes_ since the lookup, and no other
\* handler holds a pointer to the same stroke
C33_StrokeAccessUnderMutex ==
    [][\A s \in Sessions :
          (sess[s].pc \in MutateSteps /\ sess'[s].pc # sess[s].pc)
          => /\ vecTag(heap[loc[s].room]) = loc[s].vec
             /\ \A t \in Sessions \ {s} :
                   ~ /\ sess[t].pc \in PointerSteps
                     /\ loc[t].room = loc[s].room
                     /\ loc[t].stroke = loc[s].stroke]_vars

\* the handler positions whose next statement is a RoomService method that
\* takes roomsMutex_: getOrCreateRoom (joinRoom) or getRoom (leaveRoom and
\* the board handlers), the first statement of each handler
RegistryLockSteps == {"idle"}

\* C34: rooms_ and roomsPendingDeletion_ are read and written under
\* roomsMutex_ only: a step that changes either map is a call of
\* deleteRoom or the getOrCreateRoom / getRoom a handler starts with (which
\* includes the cleanup)
C34_RegistryUnderMutex ==
    [][(rooms' # rooms \/ pending' # pending)
       => \/ sess' = sess
          \/ \E s \in Sessions :
                sess'[s] # sess[s] /\ sess[s].pc \in RegistryLockSteps]_vars

\* C35: what a Room accessor returned is a copy: while a handler holds the
\* stroke it looked up, the stroke it holds is as it was returned whatever
\* happens to the Room, and appending points to it, finishing it or
\* translating it leaves the Room's strokes as they are
C35_AccessorsReturnCopies ==
    /\ [](\A s \in Sessions :
             sess[s].pc \in PointerSteps
             => \A p \in Deref(heap[loc[s].room], loc[s].stroke, loc[s].vec) :
                   /\ p # 0
                   /\ heap[loc[s].room].strokes[p].seq = loc[s].found.seq
                   /\ heap[loc[s].room].strokes[p].complete = loc[s].found.complete)
    /\ [][\A s \in Sessions :
             (sess[s].pc \in MutateSteps /\ sess'[s].pc # sess[s].pc)
             => heap'[loc[s].room].strokes = heap[loc[s].room].strokes]_vars

\* C36: the strokes of a Room are stored in the order of their sequence
\* numbers, strictly increasing from the oldest to the newest
C36_StrokesInSeqOrder ==
    \A i \in DOMAIN heap : \A j, k \in DOMAIN heap[i].strokes :
        j < k => heap[i].strokes[j].seq < heap[i].strokes[k].seq
(***************************************************************************)
(* SpecCut: two users are in room "R" and start strokes while a third      *)
(* connection joins, on two threads.                                       *)
(***************************************************************************)
CutInit == InitJoined(<<"s1", "s3">>, {"s2"}, 2)

CutNext ==
    \/ \E s \in {"s2"} : Join(s)
    \/ \E s \in {"s1", "s3"} : StrokeStart(s)

SpecCut == CutInit /\ [][CutNext]_vars

\* the sequence numbers of the strokes in a vector of strokes
SeqsOf(strokes) == {strokes[k].seq : k \in DOMAIN strokes}

\* C37: when joinRoom hands room_state to the joiner, every stroke of the
\* snapshot was started below snapshotSeq, and every stroke_start of the
\* Room below snapshotSeq (stored, or drawn by a handler that has yet to
\* store it) is in the snapshot unless the snapshot is full
C37_SnapshotIsConsistentCut ==
    [][\A s \in Sessions :
          (sess[s].pc = "join_ssend" /\ sess'[s].pc # "join_ssend")
          => LET snapshotSeq == loc[s].seq
                 snap == SeqsOf(loc[s].strokes)
                 stored == SeqsOf(heap[loc[s].room].strokes)
                 drawn == {loc[t].seq : t \in {u \in Sessions :
                              sess[u].pc = "start_add" /\ loc[u].room = loc[s].room}}
             IN  /\ \A q \in snap : q < snapshotSeq
                 /\ \/ Len(loc[s].strokes) = SnapshotStrokeLimit
                    \/ \A q \in stored \cup drawn : q < snapshotSeq => q \in snap]_vars

\* C38: the strokes stored in a Room have pairwise different strokeIds
C38_StrokeIdsDistinct ==
    \A i \in DOMAIN heap : \A j, k \in DOMAIN heap[i].strokes :
        j # k => heap[i].strokes[j].strokeId # heap[i].strokes[k].strokeId

\* the handler positions of leaveRoom behind removeParticipant: the draw of
\* the sequence number, the user_left broadcast, the test of isEmpty and the
\* write of the deadline
LeaveSteps == {"leave_seq", "leave_bcast", "leave_empty", "leave_sched"}

\* C39: no connection is handed two user_left frames for one userId, and a
\* leaveRoom whose userId is not a participant of the Room it found ends
\* there: it draws no sequence number, broadcasts no user_left and writes no
\* deadline
C39_LeaveOnlyOfParticipant ==
    /\ [](\A t \in Sessions : \A i, j \in DOMAIN inbox[t] :
             (/\ i # j /\ inbox[t][i].type = "user_left"
              /\ inbox[t][j].type = "user_left")
             => inbox[t][i].userId # inbox[t][j].userId)
    /\ [][\A s \in Sessions :
             (/\ sess[s].pc = "leave_remove" /\ sess'[s].pc # "leave_remove"
              /\ ~getParticipant(heap[loc[s].room], loc[s].oderId))
             => /\ sess'[s].pc \notin LeaveSteps
                /\ heap' = heap /\ pending' = pending /\ inbox' = inbox]_vars

\* C40: a key whose violation counter has reached violationsBeforeMute has a
\* mutedUntil_ entry; so a key without one is at least one refused attempt
\* away from the next mute, and after a cleared mute violationsBeforeMute
\* away
C40_CounterAtThresholdIsMuted ==
    \A k \in Keys :
        LET M == muting.obj
        IN  (M.violationsBeforeMute_ > 0 /\ ViolationsOf(M, k) >= M.violationsBeforeMute_)
            => k \in DOMAIN M.mutedUntil_

====
